---- MODULE Spec2Model ----
(***************************************************************************)
(* MafiaDesk web client: the live-update socket hook (useGameSocket), the  *)
(* public view, the role-assignment page and the host dashboard, together  *)
(* with the game service they talk to.                                     *)
(***************************************************************************)
EXTENDS Integers, Sequences, FiniteSets, TLC

(***************************************************************************)
(* Bounds of the model.                                                    *)
(***************************************************************************)
MaxSockets == 3
MaxTimers == 2
MaxAttempts == 7
MaxPhaseChanges == 2
MaxInbox == 2
MaxPlayers == 6

(***************************************************************************)
(* Program constants.                                                      *)
(***************************************************************************)
DefaultMaximumDelayMs == 30000
BaseDelayMs == 1000

VARIABLES
  \* ---- useGameSocket (one hook instance) ----
  mounted,            \* the component using the hook is mounted
  enabled,            \* options.enabled
  gameId,             \* the gameId argument ("none" stands for null / 0)
  optMaximumDelayMs,  \* options.reconnect?.maximumDelayMs (<<>> = undefined)
  status,             \* useState<ConnectionStatus>
  socketRef,          \* socketRef.current (0 = null, else a socket id)
  reconnectTimerRef,  \* reconnectTimerRef.current (0 = null, else a timer id)
  reconnectAttempts,  \* reconnectAttemptsRef.current
  sockets,            \* the WebSocket objects created so far, by id
  timers,             \* the browser's timers, by id
  delayLog,           \* history: delays scheduled since the counter was last 0
  failedBeforeOpen,   \* history: the counter's value when the last open reset it
  \* ---- the game service (one session) ----
  session,            \* the authoritative Session with its queued intents
  \* ---- DashboardPage (one host dashboard) ----
  game,               \* useState<GameDetail>
  error,              \* useState<string | null> ("none" = null)
  voteTarget,         \* useState<number | undefined> ("none" = undefined)
  plannedNightActions,\* useState<Partial<Record<NightActionType, number>>>
  processingQueuedActions, \* useState(false)
  page,               \* the route shown: "dashboard", or "over" after navigate()
  tasks,              \* the async handler invocations in flight, by slot
  \* ---- PublicViewPage (one public display) ----
  viewGame,           \* useState<GameDetail | null> (<<>> = null)
  viewError,          \* useState<string | null> ("none" = null)
  viewLoad,           \* the api.getGame call of the mount effect
  inbox,              \* messages on the display's socket, not yet delivered
  \* ---- AssignRolesPage (one pending game) ----
  pendingGame,        \* the pending game at the service: players, roles, status
  counts,             \* the role counts the page works with
  assignments,        \* useState<Record<number, RoleName>> ("none" = absent)
  assignError,        \* useState<string | null> ("none" = null)
  startTask,          \* the handleStartGame invocation in flight
  \* ---- one inbound socket payload at the public display ----
  rawPayload,         \* event.data of the last message event (<<>> = none yet)
  handed,             \* what socket.onmessage handed to onMessage (<<>> = nothing)
  pageEffect,         \* what the page's onMessage did with it
  \* ---- the host's commands, sent to the service one at a time ----
  reply,              \* the last command and whether the service accepted it
  \* ---- LogTimeline (one log panel) ----
  timelineLogs,       \* props.logs
  filterPhaseSwitch,  \* props.filterPhaseSwitch
  groupedLogs,        \* the groups the panel lists, top to bottom
  \* ---- the dashboard's loadGame calls ----
  loads,              \* the api.getGame calls of loadGame in flight, by slot
  delivered,          \* history: the game_id of each message onMessage got so far
  \* ---- NewGamePage (one new-game form) ----
  totalPlayers,       \* selectedFriendIds.length + customPlayers.length
  roleCounts,         \* useState<RoleCounts>
  hasManualRoleEdits  \* useState(false)

socketVars == <<mounted, enabled, gameId, optMaximumDelayMs, status, socketRef,
                reconnectTimerRef, reconnectAttempts, sockets, timers, delayLog,
                failedBeforeOpen>>

dashVars == <<game, error, voteTarget, plannedNightActions, processingQueuedActions,
              page, tasks>>

viewVars == <<viewGame, viewError, viewLoad, inbox>>

assignVars == <<pendingGame, counts, assignments, assignError, startTask>>

payloadVars == <<rawPayload, handed, pageEffect>>

serviceVars == <<reply>>

timelineVars == <<timelineLogs, filterPhaseSwitch, groupedLogs>>

loadVars == <<loads, delivered>>

newGameVars == <<totalPlayers, roleCounts, hasManualRoleEdits>>

vars == <<socketVars, session, dashVars, viewVars, assignVars, payloadVars, serviceVars,
         timelineVars, loadVars, newGameVars>>

Min(a, b) == IF a <= b THEN a ELSE b
Max(a, b) == IF a >= b THEN a ELSE b

SocketIds == 1..MaxSockets
TimerIds == 1..MaxTimers
GameIdValues == {"none", "g1", "g2"}
\* options.reconnect?.maximumDelayMs: <<>> when not given, else <<ms>>
MaximumDelayOptions == {<<>>, <<5000>>}
ConnectionStatus == {"connecting", "open", "reconnecting", "closed", "error"}

\* A WebSocket that has reached readyState CLOSED and fires no further event.
ClosedSocket == [state |-> "closed", hooked |-> FALSE, active |-> FALSE,
                 maximumDelayMs |-> 0]
\* A timer slot with no pending timeout.
NoTimer == [pending |-> FALSE, active |-> FALSE, maximumDelayMs |-> 0, delay |-> 0]


(***************************************************************************)
(* The game service: one session. The service's code is not part of the    *)
(* client sources; it follows the design of the session engine: intents    *)
(* are queued per kind and resolved when the phase ends.                   *)
(***************************************************************************)
Players == {"p1", "p2", "p3"}
RoleOf == [p \in Players |-> IF p = "p1" THEN "Mafia"
                             ELSE IF p = "p2" THEN "Detective" ELSE "Villager"]
NightActionType == {"kill", "save", "investigate"}
Target == Players \cup {"none"}
\* The dashboard's async handlers; one invocation of each in flight at a time.
TaskIds == {"switchPhase", "finishGame"}

MaxLoads == 1
MaxMessages == 2
LoadIds == 1..MaxLoads
\* A slot with no loadGame call in flight.
IdleLoad == [state |-> "idle", resp |-> <<>>]

NoIntents == [kill |-> "none", save |-> "none", investigate |-> "none", vote |-> "none"]
NoPlan == [kill |-> "none", save |-> "none", investigate |-> "none"]

LogEntry(r, ph, kind, target) == [round |-> r, phase |-> ph, kind |-> kind, target |-> target]

\* start: status = active, phase = day, round = 1, log "Game started."
SessionAfterStart ==
  [status |-> "active", phase |-> "day", round |-> 1, winning_team |-> "none",
   alive |-> [p \in Players |-> TRUE],
   logs |-> <<LogEntry(1, "day", "started", "none")>>,
   intents |-> NoIntents]

\* The GameDetail a command returns and the channel publishes.
Snapshot(s) ==
  [status |-> s.status, current_phase |-> s.phase, current_round |-> s.round,
   winning_team |-> s.winning_team, alive |-> s.alive, logs |-> s.logs]

\* No command has been answered yet.
NoReply == [command |-> "none", arg |-> "none", ok |-> TRUE, seq |-> 0]

\* A session as created: pending, nobody dead, nothing logged or queued.
PendingSession == [SessionAfterStart EXCEPT !.status = "pending", !.logs = <<>>]

Accept(s) == [ok |-> TRUE, session |-> s]
Reject(s) == [ok |-> FALSE, session |-> s]

\* An intent store that keeps the first intent of a kind (a mutation).
SrvSendActionKeepsFirst(s, kind, target) ==
  IF s.status = "active" /\ ((kind = "vote") <=> (s.phase = "day"))
    THEN Accept([s EXCEPT !.intents[kind] = IF @ = "none" THEN target ELSE @])
    ELSE Reject(s)

\* queueNightAction / the day's vote intent: the latest intent of a kind wins.
SrvSendAction(s, kind, target) ==
  IF s.status = "active" /\ ((kind = "vote") <=> (s.phase = "day"))
    THEN Accept([s EXCEPT !.intents[kind] = target])
    ELSE Reject(s)

IntentLive(s, kind) == s.intents[kind] # "none" /\ s.alive[s.intents[kind]]

\* Night resolution: a save on the kill target foils the kill, else the kill
\* target dies; a save elsewhere and the investigation leave no public trace.
ResolveNight(s) ==
  IF ~IntentLive(s, "kill") THEN s
  ELSE IF IntentLive(s, "save") /\ s.intents.save = s.intents.kill
    THEN [s EXCEPT !.logs = Append(@, LogEntry(s.round, "night", "foiled", s.intents.kill))]
    ELSE [s EXCEPT !.alive[s.intents.kill] = FALSE,
                   !.logs = Append(@, LogEntry(s.round, "night", "killed", s.intents.kill))]

\* Day resolution: the vote target is eliminated, or nobody is.
ResolveDay(s) ==
  IF IntentLive(s, "vote")
    THEN [s EXCEPT !.alive[s.intents.vote] = FALSE,
                   !.logs = Append(@, LogEntry(s.round, "day", "eliminated", s.intents.vote))]
    ELSE [s EXCEPT !.logs = Append(@, LogEntry(s.round, "day", "no_elimination", "none"))]

\* endPhase that never counts a round (a mutation).
SrvChangePhaseKeepsRound(s, phase) ==
  IF s.status = "active" /\ phase # s.phase
    THEN LET r == IF s.phase = "night" THEN ResolveNight(s) ELSE ResolveDay(s)
         IN Accept([r EXCEPT !.phase = phase, !.intents = NoIntents])
    ELSE Reject(s)

\* endPhase that only refuses a pending session (a mutation).
SrvChangePhaseAfterFinish(s, phase) ==
  IF s.status # "pending" /\ phase # s.phase
    THEN LET r == IF s.phase = "night" THEN ResolveNight(s) ELSE ResolveDay(s)
         IN Accept([r EXCEPT !.phase = phase,
                             !.round = IF s.phase = "night" THEN @ + 1 ELSE @,
                             !.intents = NoIntents])
    ELSE Reject(s)

\* endPhase that treats an investigation of a player who is dead when it is
\* resolved as a fatal error (a mutation).
SrvChangePhaseDeadTargetFatal(s, phase) ==
  IF s.status = "active" /\ phase # s.phase
    THEN LET r == IF s.phase = "night" THEN ResolveNight(s) ELSE ResolveDay(s)
         IN IF s.intents.investigate # "none" /\ ~r.alive[s.intents.investigate]
              THEN Reject(s)
              ELSE Accept([r EXCEPT !.phase = phase,
                                    !.round = IF s.phase = "night" THEN @ + 1 ELSE @,
                                    !.intents = NoIntents])
    ELSE Reject(s)

\* endPhase: resolve, log with the ending phase and round, flip, count the
\* round on night -> day, drop the intents.
SrvChangePhase(s, phase) ==
  IF s.status = "active" /\ phase # s.phase
    THEN LET r == IF s.phase = "night" THEN ResolveNight(s) ELSE ResolveDay(s)
         IN Accept([r EXCEPT !.phase = phase,
                             !.round = IF s.phase = "night" THEN @ + 1 ELSE @,
                             !.intents = NoIntents])
    ELSE Reject(s)

\* finish that lets the host declare a winner again (a mutation).
SrvFinishAgain(s, team) ==
  IF s.status # "pending"
    THEN Accept([s EXCEPT !.status = "finished", !.winning_team = team,
                          !.logs = Append(@, LogEntry(s.round, s.phase, "finished", team))])
    ELSE Reject(s)

\* finish(winningTeam)
SrvFinish(s, team) ==
  IF s.status = "active"
    THEN Accept([s EXCEPT !.status = "finished", !.winning_team = team,
                          !.logs = Append(@, LogEntry(s.round, s.phase, "finished", team))])
    ELSE Reject(s)

(***************************************************************************)
(* DashboardPage: the host's control room.                                 *)
(***************************************************************************)
\* A slot with no handler invocation in flight.
IdleTask ==
  [kind |-> "idle", pc |-> "idle", phase |-> "none", plan |-> NoIntents,
   team |-> "none", state |-> "idle", resp |-> <<>>]

DashState ==
  [game |-> game, error |-> error, voteTarget |-> voteTarget,
   plannedNightActions |-> plannedNightActions,
   processingQueuedActions |-> processingQueuedActions, page |-> page, tasks |-> tasks]

\* State updates reach the page only while it is mounted; a finished game makes
\* the page navigate to the game-over route.
Render(old, new) ==
  IF old.page = "over" THEN [old EXCEPT !.tasks = new.tasks]
  ELSE IF new.game.status = "finished" THEN [new EXCEPT !.page = "over"]
  ELSE new

SetDash(d) ==
  LET r == Render(DashState, d)
  IN /\ game' = r.game
     /\ error' = r.error
     /\ voteTarget' = r.voteTarget
     /\ plannedNightActions' = r.plannedNightActions
     /\ processingQueuedActions' = r.processingQueuedActions
     /\ page' = r.page
     /\ tasks' = r.tasks

\* The page shows its controls (not "Loading", not the error text).
ControlsShown == page = "dashboard" /\ error = "none"

alivePlayers(g) == {p \in Players : g.alive[p]}
aliveNonMafiaPlayers(g) == {p \in alivePlayers(g) : RoleOf[p] # "Mafia"}
aliveDetectives(g) == {p \in alivePlayers(g) : RoleOf[p] = "Detective"}
investigateTargets(g) ==
  IF Cardinality(aliveDetectives(g)) = 1
    THEN alivePlayers(g) \ aliveDetectives(g)
    ELSE alivePlayers(g)

EligibleIds(g, action) ==
  IF action = "kill" THEN aliveNonMafiaPlayers(g)
  ELSE IF action = "save" THEN alivePlayers(g)
  ELSE investigateTargets(g)

Free(t) == tasks[t].kind = "idle"

\* handleNightActionDrop
handleNightActionDrop ==
  /\ ControlsShown /\ game.current_phase = "night"
  /\ \E action \in NightActionType : \E playerId \in EligibleIds(game, action) :
       plannedNightActions' = [plannedNightActions EXCEPT ![action] = playerId]
  /\ UNCHANGED <<socketVars, viewVars, assignVars, payloadVars, serviceVars, timelineVars, loadVars, newGameVars, session, game, error, voteTarget, processingQueuedActions,
                 page, tasks>>

\* clearNightAction (the Clear button of a zone that shows a selected player)
clearNightAction ==
  /\ ControlsShown /\ game.current_phase = "night"
  /\ \E action \in NightActionType :
       /\ plannedNightActions[action] # "none"
       /\ plannedNightActions' = [plannedNightActions EXCEPT ![action] = "none"]
  /\ UNCHANGED <<socketVars, viewVars, assignVars, payloadVars, serviceVars, timelineVars, loadVars, newGameVars, session, game, error, voteTarget, processingQueuedActions,
                 page, tasks>>

\* handleVoteDrop
handleVoteDrop ==
  /\ ControlsShown /\ game.current_phase = "day"
  /\ \E playerId \in alivePlayers(game) : voteTarget' = playerId
  /\ UNCHANGED <<socketVars, viewVars, assignVars, payloadVars, serviceVars, timelineVars, loadVars, newGameVars, session, game, error, plannedNightActions,
                 processingQueuedActions, page, tasks>>

\* The vote zone's Clear button
clearVote ==
  /\ ControlsShown /\ game.current_phase = "day"
  /\ voteTarget # "none"
  /\ voteTarget' = "none"
  /\ UNCHANGED <<socketVars, viewVars, assignVars, payloadVars, serviceVars, timelineVars, loadVars, newGameVars, session, game, error, plannedNightActions,
                 processingQueuedActions, page, tasks>>

\* processNightActions that leaves out a save on the kill target (a mutation).
NextNightRequestSkipsFoilingSave(plan, after) ==
  IF after = "start" /\ plan.kill # "none" THEN "kill"
  ELSE IF after \in {"start", "kill"} /\ plan.save # "none" /\ plan.save # plan.kill
    THEN "save"
  ELSE IF after \in {"start", "kill", "save"} /\ plan.investigate # "none" THEN "investigate"
  ELSE "done"

\* processNightActions: kill, then save, then investigate, each if planned;
\* the request that follows the step `after`.
NextNightRequest(plan, after) ==
  IF after = "start" /\ plan.kill # "none" THEN "kill"
  ELSE IF after \in {"start", "kill"} /\ plan.save # "none" THEN "save"
  ELSE IF after \in {"start", "kill", "save"} /\ plan.investigate # "none" THEN "investigate"
  ELSE "done"

\* switchPhase from its start, or from the response to `after`, up to the next
\* request: the queued actions of the ending phase first, then changePhase.
\* processNightActions ends with setPlannedNightActions({}), processDayActions
\* with setVoteTarget(undefined).
ContinueSwitchPhase(d, t, after) ==
  LET k == d.tasks[t]
      next == IF k.phase = "day" THEN NextNightRequest(k.plan, after)
              ELSE IF after = "start" /\ k.plan.vote # "none" THEN "vote" ELSE "done"
  IN IF next # "done"
       THEN [d EXCEPT !.tasks[t].pc = next, !.tasks[t].state = "sent", !.tasks[t].resp = <<>>]
       ELSE [d EXCEPT !.tasks[t].pc = "phase", !.tasks[t].state = "sent",
                      !.tasks[t].resp = <<>>,
                      !.plannedNightActions = IF k.phase = "day" THEN NoPlan ELSE @,
                      !.voteTarget = IF k.phase = "night" /\ after = "vote" THEN "none" ELSE @]

\* The End Day / End Night button: switchPhase(isDay ? "night" : "day").
\* The button is disabled while processingQueuedActions.
switchPhase ==
  /\ ControlsShown /\ ~processingQueuedActions
  /\ Free("switchPhase")
  /\ LET t == "switchPhase"
         phase == IF game.current_phase = "day" THEN "night" ELSE "day"
         d == [DashState EXCEPT
                 !.processingQueuedActions = TRUE,
                 !.error = "none",
                 !.tasks[t] = [IdleTask EXCEPT
                                 !.kind = "switchPhase", !.phase = phase,
                                 !.plan = [kill |-> plannedNightActions.kill,
                                           save |-> plannedNightActions.save,
                                           investigate |-> plannedNightActions.investigate,
                                           vote |-> voteTarget]]]
     IN SetDash(ContinueSwitchPhase(d, t, "start"))
  /\ UNCHANGED <<socketVars, viewVars, assignVars, payloadVars, serviceVars, timelineVars, loadVars, newGameVars, session>>

\* The Villagers Win / Mafia Win buttons: finishGame(winningTeam)
finishGame ==
  /\ ControlsShown
  /\ Free("finishGame")
  /\ \E winningTeam \in {"Villagers", "Mafia"} :
       tasks' = [tasks EXCEPT !["finishGame"] =
                   [IdleTask EXCEPT !.kind = "finishGame", !.pc = "finish",
                                    !.team = winningTeam, !.state = "sent"]]
  /\ UNCHANGED <<socketVars, viewVars, assignVars, payloadVars, serviceVars, timelineVars, loadVars, newGameVars, session, game, error, voteTarget, plannedNightActions,
                 processingQueuedActions, page>>

\* The phase changes a session has gone through since its start.
PhaseChanges(s) == 2 * (s.round - 1) + (IF s.phase = "night" THEN 1 ELSE 0)

\* The service's answer to the request a task has outstanding.
SrvRequest(s, k) ==
  IF k.pc \in NightActionType \cup {"vote"} THEN SrvSendAction(s, k.pc, k.plan[k.pc])
  ELSE IF k.pc = "phase" THEN SrvChangePhase(s, k.phase)
  ELSE SrvFinish(s, k.team)

\* The service handles a request: it applies the command and answers with the
\* fresh snapshot, or rejects it and changes nothing.
ServiceHandles ==
  \E t \in TaskIds :
    /\ tasks[t].state = "sent"
    /\ LET r == SrvRequest(session, tasks[t])
       IN /\ PhaseChanges(r.session) <= MaxPhaseChanges
          /\ session' = r.session
          /\ tasks' = [tasks EXCEPT ![t].state = IF r.ok THEN "ok" ELSE "fail",
                                    ![t].resp = IF r.ok THEN <<Snapshot(r.session)>> ELSE <<>>]
    /\ UNCHANGED <<socketVars, viewVars, assignVars, payloadVars, serviceVars, timelineVars, loadVars, newGameVars, game, error, voteTarget, plannedNightActions,
                   processingQueuedActions, page>>

\* A request fails in transport or persistence: nothing is applied.
RequestFails ==
  \E t \in TaskIds :
    /\ tasks[t].state = "sent"
    /\ tasks' = [tasks EXCEPT ![t].state = "fail"]
    /\ UNCHANGED <<socketVars, viewVars, assignVars, payloadVars, serviceVars, timelineVars, loadVars, newGameVars, session, game, error, voteTarget, plannedNightActions,
                   processingQueuedActions, page>>

\* The continuation of a handler that goes on after a queued action failed
\* (a mutation).
ResumeIgnoresFailure(d, t) ==
  LET k == d.tasks[t]
      done == [d EXCEPT !.tasks[t] = IdleTask]
  IN IF k.kind = "switchPhase" /\ k.pc # "phase"
       THEN ContinueSwitchPhase(IF k.state = "fail" THEN d ELSE [d EXCEPT !.game = k.resp[1]],
                                t, k.pc)
     ELSE IF k.kind = "switchPhase"
       THEN IF k.state = "fail"
              THEN [done EXCEPT !.error = "failed",
                                !.processingQueuedActions = FALSE]
              ELSE [done EXCEPT !.game = k.resp[1], !.error = "none",
                                !.plannedNightActions =
                                   IF k.phase = "night" THEN NoPlan ELSE @,
                                !.voteTarget = IF k.phase = "night" THEN "none" ELSE @,
                                !.processingQueuedActions = FALSE]
     ELSE IF k.state = "fail"
       THEN [done EXCEPT !.error = "failed"]
       ELSE [done EXCEPT !.game = k.resp[1], !.error = "none", !.page = "over"]

\* The continuation of a handler after its awaited request settled.
Resume(d, t) ==
  LET k == d.tasks[t]
      done == [d EXCEPT !.tasks[t] = IdleTask]
  IN IF k.kind = "switchPhase" /\ k.pc # "phase"
       THEN IF k.state = "fail"
              \* catch: setError; setProcessingQueuedActions(false); return
              THEN [done EXCEPT !.error = "failed",
                                !.processingQueuedActions = FALSE]
              \* executeAction / processDayActions: setGame(response)
              ELSE ContinueSwitchPhase([d EXCEPT !.game = k.resp[1]], t, k.pc)
     ELSE IF k.kind = "switchPhase"
       THEN IF k.state = "fail"
              THEN [done EXCEPT !.error = "failed",
                                !.processingQueuedActions = FALSE]
              ELSE [done EXCEPT !.game = k.resp[1], !.error = "none",
                                !.plannedNightActions =
                                   IF k.phase = "night" THEN NoPlan ELSE @,
                                !.voteTarget = IF k.phase = "night" THEN "none" ELSE @,
                                !.processingQueuedActions = FALSE]
     ELSE IF k.state = "fail"
       THEN [done EXCEPT !.error = "failed"]
       ELSE [done EXCEPT !.game = k.resp[1], !.error = "none", !.page = "over"]

\* A response (or failure) reaches the page and the handler continues.
HandlerResumes ==
  \E t \in TaskIds :
    /\ tasks[t].state \in {"ok", "fail"}
    /\ SetDash(Resume(DashState, t))
    /\ UNCHANGED <<socketVars, viewVars, assignVars, payloadVars, serviceVars, timelineVars, loadVars, newGameVars, session>>


\* The host reloads the dashboard: the old page's handlers are gone with
\* their state, the new page starts from its useState defaults and its mount
\* effect, loadGame, shows the session as it is.
Reload ==
  /\ page = "dashboard"
  /\ SetDash([game |-> Snapshot(session), error |-> "none", voteTarget |-> "none",
              plannedNightActions |-> NoPlan, processingQueuedActions |-> FALSE,
              page |-> "dashboard", tasks |-> [t \in TaskIds |-> IdleTask]])
  /\ UNCHANGED <<socketVars, viewVars, assignVars, payloadVars, serviceVars, timelineVars, loadVars, newGameVars, session>>

\* The service has published a change of this game since the page loaded it.
Published == session # SessionAfterStart

\* onMessage that reloads on every message (a mutation).
DashOnMessageAnyGame(d, ls, game_id) ==
  IF \E l \in LoadIds : ls[l].state = "idle"
    THEN [ls EXCEPT ![CHOOSE l \in LoadIds : ls[l].state = "idle"] =
                       [state |-> "sent", resp |-> <<>>]]
    ELSE ls

\* useGameSocket's onMessage on the dashboard: a message of another game is
\* ignored, a message of this game calls loadGame, which awaits api.getGame.
DashOnMessage(d, ls, game_id) ==
  IF game_id # "mine" THEN ls
  ELSE [ls EXCEPT ![CHOOSE l \in LoadIds : ls[l].state = "idle"] =
                     [state |-> "sent", resp |-> <<>>]]

\* A message arrives on the dashboard's socket.
DashMessage ==
  /\ page = "dashboard"
  /\ \E game_id \in {"mine", "other"} :
       /\ game_id = "mine" => Published
       /\ \E l \in LoadIds : loads[l].state = "idle"
       /\ Len(delivered) < MaxMessages
       /\ delivered' = Append(delivered, game_id)
       /\ loads' = DashOnMessage(DashState, loads, game_id)
  /\ UNCHANGED <<socketVars, viewVars, assignVars, payloadVars, serviceVars, timelineVars,
                 newGameVars, session, dashVars>>

\* The service answers a getGame of loadGame with the snapshot of that moment.
LoadServed ==
  /\ \E l \in LoadIds :
       /\ loads[l].state = "sent"
       /\ loads' = [loads EXCEPT ![l] = [state |-> "ok", resp |-> <<Snapshot(session)>>]]
  /\ UNCHANGED <<socketVars, viewVars, assignVars, payloadVars, serviceVars, timelineVars,
                 newGameVars, session, dashVars, delivered>>

\* A getGame of loadGame fails.
LoadFails ==
  /\ \E l \in LoadIds :
       /\ loads[l].state = "sent"
       /\ loads' = [loads EXCEPT ![l].state = "fail"]
  /\ UNCHANGED <<socketVars, viewVars, assignVars, payloadVars, serviceVars, timelineVars,
                 newGameVars, session, dashVars, delivered>>

\* loadGame continues: setGame(data); setError(null), or setError in its catch.
LoadResumes ==
  /\ \E l \in LoadIds :
       /\ loads[l].state \in {"ok", "fail"}
       /\ SetDash(IF loads[l].state = "ok"
                    THEN [DashState EXCEPT !.game = loads[l].resp[1], !.error = "none"]
                    ELSE [DashState EXCEPT !.error = "failed"])
       /\ loads' = [loads EXCEPT ![l] = IdleLoad]
  /\ UNCHANGED <<socketVars, viewVars, assignVars, payloadVars, serviceVars, timelineVars,
                 newGameVars, session, delivered>>


(***************************************************************************)
(* The hook's mutable state as one record, so that the handlers, which     *)
(* call each other, compose as functions.                                  *)
(***************************************************************************)
HookState ==
  [status |-> status, socketRef |-> socketRef, reconnectTimerRef |-> reconnectTimerRef,
   reconnectAttempts |-> reconnectAttempts, sockets |-> sockets, timers |-> timers,
   delayLog |-> delayLog, failedBeforeOpen |-> failedBeforeOpen]

SetHook(h) ==
  /\ status' = h.status
  /\ socketRef' = h.socketRef
  /\ reconnectTimerRef' = h.reconnectTimerRef
  /\ reconnectAttempts' = h.reconnectAttempts
  /\ sockets' = h.sockets
  /\ timers' = h.timers
  /\ delayLog' = h.delayLog
  /\ failedBeforeOpen' = h.failedBeforeOpen

\* socket.close(): CONNECTING/OPEN become CLOSING; otherwise nothing.
CloseSocket(sk) ==
  IF sk.state \in {"connecting", "open"} THEN [sk EXCEPT !.state = "closing"] ELSE sk

\* cleanup() with the timer left pending (a mutation of cleanup).
CleanupLeavesTimer(h) ==
  LET h1 == [h EXCEPT !.reconnectTimerRef = 0]
  IN IF h1.socketRef # 0
       THEN [h1 EXCEPT !.sockets[h.socketRef] =
                          IF @.state = "closed" THEN @
                          ELSE CloseSocket([@ EXCEPT !.hooked = FALSE]),
                       !.socketRef = 0]
       ELSE h1

\* cleanup(): clear the pending timer, unhook and close the current socket.
cleanup(h) ==
  LET h1 == IF h.reconnectTimerRef # 0
              THEN [h EXCEPT !.timers[h.reconnectTimerRef] = NoTimer,
                             !.reconnectTimerRef = 0]
              ELSE h
  IN IF h1.socketRef # 0
       THEN [h1 EXCEPT !.sockets[h.socketRef] =
                          IF @.state = "closed" THEN @
                          ELSE CloseSocket([@ EXCEPT !.hooked = FALSE]),
                       !.socketRef = 0]
       ELSE h1

\* The effect's returned function sets isActive = false: every closure of the
\* ending cycle (socket handlers, timer callbacks) now sees isActive false.
Deactivate(h) ==
  [h EXCEPT !.sockets = [s \in SocketIds |-> [h.sockets[s] EXCEPT !.active = FALSE]],
            !.timers = [t \in TimerIds |-> [h.timers[t] EXCEPT !.active = FALSE]]]

FreeSockets(h) == {s \in SocketIds : h.sockets[s].state = "closed" /\ s # h.socketRef}
FreeTimers(h) == {t \in TimerIds : ~h.timers[t].pending}

\* connect() in a closure whose isActive is `active`.
connect(h, active, maximumDelayMs) ==
  IF ~active THEN h
  ELSE LET s == CHOOSE x \in FreeSockets(h) : \A y \in FreeSockets(h) : x <= y
       IN [h EXCEPT !.status = IF h.reconnectAttempts > 0 THEN "reconnecting"
                                ELSE "connecting",
                    !.sockets[s] = [state |-> "connecting", hooked |-> TRUE,
                                    active |-> TRUE, maximumDelayMs |-> maximumDelayMs],
                    !.socketRef = s]

\* 2 ** n
RECURSIVE Pow2(_)
Pow2(n) == IF n <= 0 THEN 1 ELSE 2 * Pow2(n - 1)

\* A backoff without the ceiling (a mutation).
BackoffDelayUncapped(maximumDelayMs, nextAttempt) ==
  BaseDelayMs * Pow2(Max(0, nextAttempt - 1))

\* A backoff that doubles from the attempt number itself (a mutation).
BackoffDelayOffByOne(maximumDelayMs, nextAttempt) ==
  Min(maximumDelayMs, BaseDelayMs * Pow2(nextAttempt))

\* Math.min(maximumDelayMs, 1000 * 2 ** Math.max(0, nextAttempt - 1))
BackoffDelay(maximumDelayMs, nextAttempt) ==
  Min(maximumDelayMs, BaseDelayMs * Pow2(Max(0, nextAttempt - 1)))

\* scheduleReconnect() that gives up after three failures in a row (a
\* mutation).
scheduleReconnectGivesUp(h, active, maximumDelayMs) ==
  IF ~active THEN h
  ELSE IF h.reconnectAttempts >= 3
    THEN [h EXCEPT !.reconnectAttempts = @ + 1, !.status = "closed"]
  ELSE LET nextAttempt == h.reconnectAttempts + 1
           delay == BackoffDelay(maximumDelayMs, nextAttempt)
           t == CHOOSE x \in FreeTimers(h) : \A y \in FreeTimers(h) : x <= y
       IN [h EXCEPT !.reconnectAttempts = nextAttempt,
                    !.status = "reconnecting",
                    !.timers[t] = [pending |-> TRUE, active |-> TRUE,
                                   maximumDelayMs |-> maximumDelayMs, delay |-> delay],
                    !.reconnectTimerRef = t,
                    !.delayLog = Append(h.delayLog, delay)]

\* scheduleReconnect() in a closure whose isActive is `active`.
scheduleReconnect(h, active, maximumDelayMs) ==
  IF ~active THEN h
  ELSE LET nextAttempt == h.reconnectAttempts + 1
           delay == BackoffDelay(maximumDelayMs, nextAttempt)
           t == CHOOSE x \in FreeTimers(h) : \A y \in FreeTimers(h) : x <= y
       IN [h EXCEPT !.reconnectAttempts = nextAttempt,
                    !.status = "reconnecting",
                    !.timers[t] = [pending |-> TRUE, active |-> TRUE,
                                   maximumDelayMs |-> maximumDelayMs, delay |-> delay],
                    !.reconnectTimerRef = t,
                    !.delayLog = Append(h.delayLog, delay)]

\* The effect body for the props (e, g), run after the previous cleanup.
EffectBody(h, e, g, optMax) ==
  IF g = "none" \/ ~e
    THEN [cleanup(h) EXCEPT !.status = "closed"]
    ELSE connect(h, TRUE, IF optMax = <<>> THEN DefaultMaximumDelayMs ELSE optMax[1])

\* The function the previous effect run returned: `cleanup` itself when that run
\* took the disabled branch, else isActive = false followed by cleanup().
EffectCleanup(h) == cleanup(Deactivate(h))

(***************************************************************************)
(* PublicViewPage: the display follows the game through one api.getGame    *)
(* on mount and the snapshots its socket delivers.                         *)
(***************************************************************************)
\* The game the display was opened for.
ViewGameId == "g1"

\* The GameSocketMessage the service publishes for a session.
Message(id, s) == [game_id |-> id, snap |-> Snapshot(s)]

InitView ==
  /\ viewGame = <<>>
  /\ viewError = "none"
  /\ viewLoad = [state |-> "sent", resp |-> <<>>]
  /\ inbox = <<>>

\* The host queues an intent; nothing is published.
HostQueuesIntent ==
  /\ \E kind \in {"kill", "save", "vote"} : \E target \in Players :
       LET r == SrvSendAction(session, kind, target)
       IN r.ok /\ session.alive[target] /\ session' = r.session
  /\ UNCHANGED <<socketVars, dashVars, viewVars, assignVars, payloadVars, serviceVars, timelineVars, loadVars, newGameVars>>

\* The host ends the phase; the service publishes the new snapshot.
HostEndsPhase ==
  /\ Len(inbox) < MaxInbox
  /\ LET r == SrvChangePhase(session, IF session.phase = "day" THEN "night" ELSE "day")
     IN /\ r.ok /\ PhaseChanges(r.session) <= MaxPhaseChanges
        /\ session' = r.session
        /\ inbox' = Append(inbox, Message(ViewGameId, r.session))
  /\ UNCHANGED <<socketVars, dashVars, viewGame, viewError, viewLoad, assignVars, payloadVars, serviceVars, timelineVars, loadVars, newGameVars>>

\* The host finishes the game; the service publishes the final snapshot.
HostFinishes ==
  /\ Len(inbox) < MaxInbox
  /\ \E team \in {"Villagers", "Mafia"} :
       LET r == SrvFinish(session, team)
       IN /\ r.ok
          /\ session' = r.session
          /\ inbox' = Append(inbox, Message(ViewGameId, r.session))
  /\ UNCHANGED <<socketVars, dashVars, viewGame, viewError, viewLoad, assignVars, payloadVars, serviceVars, timelineVars, loadVars, newGameVars>>

\* A message of another game reaches the display's socket.
ForeignMessage ==
  /\ Len(inbox) < MaxInbox
  /\ inbox' = Append(inbox, Message("g2", SessionAfterStart))
  /\ UNCHANGED <<socketVars, session, dashVars, viewGame, viewError, viewLoad, assignVars, payloadVars, serviceVars, timelineVars, loadVars, newGameVars>>

\* The service answers the display's api.getGame with the current snapshot.
ViewLoadServed ==
  /\ viewLoad.state = "sent"
  /\ viewLoad' = [state |-> "ok", resp |-> <<Snapshot(session)>>]
  /\ UNCHANGED <<socketVars, session, dashVars, viewGame, viewError, inbox, assignVars, payloadVars, serviceVars, timelineVars, loadVars, newGameVars>>

\* The display's api.getGame fails.
ViewLoadFails ==
  /\ viewLoad.state = "sent"
  /\ viewLoad' = [state |-> "fail", resp |-> <<>>]
  /\ UNCHANGED <<socketVars, session, dashVars, viewGame, viewError, inbox, assignVars, payloadVars, serviceVars, timelineVars, loadVars, newGameVars>>

\* The mount effect continues: setGame(data), or setError in the catch.
ViewLoadResumes ==
  /\ viewLoad.state \in {"ok", "fail"}
  /\ viewLoad' = [state |-> "done", resp |-> <<>>]
  /\ IF viewLoad.state = "ok"
       THEN viewGame' = viewLoad.resp /\ UNCHANGED viewError
       ELSE viewError' = "failed" /\ UNCHANGED viewGame
  /\ UNCHANGED <<socketVars, session, dashVars, inbox, assignVars, payloadVars, serviceVars, timelineVars, loadVars, newGameVars>>

\* onMessage: a message of another game is ignored, any other replaces the game
\* shown and clears the error.
ViewOnMessage ==
  /\ inbox # <<>>
  /\ inbox' = Tail(inbox)
  /\ IF Head(inbox).game_id # ViewGameId
       THEN UNCHANGED <<viewGame, viewError>>
       ELSE viewError' = "none" /\ viewGame' = <<Head(inbox).snap>>
  /\ UNCHANGED <<socketVars, session, dashVars, viewLoad, assignVars, payloadVars, serviceVars, timelineVars, loadVars, newGameVars>>

(***************************************************************************)
(* Inbound socket payloads: parseSocketPayload, socket.onmessage and the   *)
(* public display's onMessage.                                             *)
(***************************************************************************)
\* How a field of a JSON object stands to the type GameSocketMessage gives it.
FieldShapes == {"ok", "absent", "wrong"}
\* game_id: the number of the displayed game, another number, or no number.
GameIdShapes == {"mine", "other", "wrong"}
\* players / logs: absent, an array of well-formed rows, an array whose rows
\* are objects without the fields, an array of null, or no array at all.
ListShapes == {"absent", "rows", "blank", "holes", "notarray"}

\* event.data that is no string (a Blob or an ArrayBuffer).
BinaryPayload ==
  [text |-> FALSE, json |-> "invalid", event |-> "absent", status |-> "absent",
   game_id |-> "wrong", phase |-> "absent", round |-> "absent",
   players |-> "absent", logs |-> "absent"]

\* A string that is no JSON, or JSON for null, for a scalar or for an array.
TextPayload(kind) == [BinaryPayload EXCEPT !.text = TRUE, !.json = kind]

\* A string that is JSON for an object.
ObjectPayloads ==
  [text : {TRUE}, json : {"object"}, event : FieldShapes, status : {"ok", "wrong"},
   game_id : GameIdShapes, phase : {"ok", "wrong"}, round : FieldShapes,
   players : ListShapes, logs : {"rows", "notarray"}]

Payloads ==
  {BinaryPayload} \cup {TextPayload(k) : k \in {"invalid", "null", "scalar", "array"}}
    \cup ObjectPayloads

\* The type GameSocketMessage: the five required fields of their types, and
\* players and logs, when present, arrays of well-formed rows.
MatchesSchema(payload) ==
  /\ payload.text /\ payload.json = "object"
  /\ payload.event = "ok" /\ payload.status = "ok" /\ payload.game_id # "wrong"
  /\ payload.phase = "ok" /\ payload.round = "ok"
  /\ payload.players \in {"absent", "rows"} /\ payload.logs \in {"absent", "rows"}

\* isGameSocketMessage applied to JSON.parse(payload)
isGameSocketMessage(value) ==
  /\ value.json \in {"object", "array"}
  /\ value.event = "ok" /\ value.status = "ok" /\ value.game_id # "wrong"
  /\ value.phase = "ok" /\ value.round = "ok"

\* parseSocketPayload: <<>> stands for null
parseSocketPayload(payload) ==
  IF ~payload.text THEN <<>>
  ELSE IF payload.json = "invalid" THEN <<>>
  ELSE IF isGameSocketMessage(payload) THEN <<payload>> ELSE <<>>

\* list?.map(row => ({... row.field ...})) ?? []: calling map on what is no
\* array, or reading a field of null, throws a TypeError.
MapThrows(list) == list \in {"holes", "notarray"}

\* The game the display shows after setGame with the rows of the message:
\* rows without is_alive count as not alive.
ShownAfter(message, g) ==
  IF message.players = "blank" THEN [g EXCEPT !.alive = [q \in Players |-> FALSE]] ELSE g

\* socket.onmessage followed by the display's onMessage for one message event.
SocketMessage ==
  /\ viewGame # <<>>
  /\ \E payload \in Payloads :
       LET message == parseSocketPayload(payload)
       IN /\ rawPayload' = <<payload>>
          /\ handed' = message
          /\ IF message = <<>>
               THEN pageEffect' = "none" /\ UNCHANGED <<viewGame, viewError>>
             ELSE IF payload.game_id # "mine"
               THEN pageEffect' = "ignored" /\ UNCHANGED <<viewGame, viewError>>
             ELSE IF MapThrows(payload.players) \/ MapThrows(payload.logs)
               THEN /\ pageEffect' = "threw"
                    /\ viewError' = "none"
                    /\ UNCHANGED viewGame
             ELSE /\ pageEffect' = "shown"
                  /\ viewError' = "none"
                  /\ viewGame' = <<ShownAfter(payload, Snapshot(session))>>
  /\ UNCHANGED <<socketVars, session, dashVars, viewLoad, inbox, assignVars, serviceVars, timelineVars, loadVars, newGameVars>>

(***************************************************************************)
(* AssignRolesPage.                                                        *)
(***************************************************************************)
ROLE_KEYS == {"Mafia", "Detective", "Doctor", "Villager", "Jester"}

DEFAULT_COUNTS ==
  [role \in ROLE_KEYS |->
     IF role = "Villager" THEN 2 ELSE IF role = "Jester" THEN 0 ELSE 1]

PlayerIds(n) == 1..n

\* NewGamePage: defaultRoleCounts
defaultRoleCounts == DEFAULT_COUNTS

\* getSuggestedRoleCounts: taking `need` slots back from one role, never below
\* its minimum (the inner while loop).
TakeBack(base, role, need) ==
  LET minimum == IF role = "Mafia" THEN 1 ELSE 0
      take == Min(Max(0, base[role] - minimum), Max(0, need))
  IN [base EXCEPT ![role] = @ - take]

SlotSum(c) == c["Mafia"] + c["Detective"] + c["Doctor"] + c["Villager"] + c["Jester"]

\* getSuggestedRoleCounts without the floor of one Mafia (a mutation).
getSuggestedRoleCountsNoFloor(playerCount) ==
  IF playerCount <= 0 THEN defaultRoleCounts
  ELSE
    LET base == [role \in ROLE_KEYS |->
                   IF role = "Mafia" THEN (playerCount + 2) \div 4
                   ELSE IF role = "Detective" THEN (IF playerCount >= 5 THEN 1 ELSE 0)
                   ELSE IF role = "Doctor" THEN (IF playerCount >= 6 THEN 1 ELSE 0)
                   ELSE IF role = "Jester" THEN (IF playerCount >= 9 THEN 1 ELSE 0)
                   ELSE 0]
    IN [base EXCEPT !["Villager"] = Max(0, playerCount - SlotSum(base))]

\* getSuggestedRoleCounts
getSuggestedRoleCounts(playerCount) ==
  IF playerCount <= 0 THEN defaultRoleCounts
  ELSE
    LET mafia == Max(1, (playerCount + 2) \div 4)
        base == [role \in ROLE_KEYS |->
                   IF role = "Mafia" THEN mafia
                   ELSE IF role = "Detective" THEN (IF playerCount >= 5 THEN 1 ELSE 0)
                   ELSE IF role = "Doctor" THEN (IF playerCount >= 6 THEN 1 ELSE 0)
                   ELSE IF role = "Jester" THEN (IF playerCount >= 9 THEN 1 ELSE 0)
                   ELSE 0]
        b1 == TakeBack(base, "Jester", SlotSum(base) - playerCount)
        b2 == TakeBack(b1, "Doctor", SlotSum(b1) - playerCount)
        b3 == TakeBack(b2, "Detective", SlotSum(b2) - playerCount)
        b4 == TakeBack(b3, "Mafia", SlotSum(b3) - playerCount)
    IN [b4 EXCEPT !["Villager"] = Max(0, playerCount - SlotSum(b4))]

\* The counts the page computes: DEFAULT_COUNTS overlaid with the roleCounts of
\* the router state, <<>> when the page was opened without one.
CountsFor(routerState) == IF routerState = <<>> THEN DEFAULT_COUNTS ELSE routerState[1]

\* How the page is reached for a game of n players: from the pending-games
\* lists (no router state), or from NewGamePage, whose handleSubmit passes on
\* only role counts that add up to the number of players.
RouterStates(n) ==
  {<<>>} \cup {<<c>> : c \in {d \in {getSuggestedRoleCounts(n)} : SlotSum(d) = n}}

(***************************************************************************)
(* NewGamePage: the role counts of the game being set up.                  *)
(***************************************************************************)
\* The effect on [totalPlayers, hasManualRoleEdits]: with no player the
\* defaults come back and the edit flag is dropped; without a manual edit the
\* counts follow the suggestion.
RoleCountsEffect(n, c, manual) ==
  IF n <= 0 THEN [roleCounts |-> defaultRoleCounts, hasManualRoleEdits |-> FALSE]
  ELSE IF ~manual
    THEN [roleCounts |-> getSuggestedRoleCounts(n), hasManualRoleEdits |-> FALSE]
    ELSE [roleCounts |-> c, hasManualRoleEdits |-> TRUE]

SetNewGame(n, c, manual) ==
  LET r == RoleCountsEffect(n, c, manual)
  IN /\ totalPlayers' = n
     /\ roleCounts' = r.roleCounts
     /\ hasManualRoleEdits' = r.hasManualRoleEdits

\* The host selects a friend or adds a custom player.
AddPlayer ==
  /\ totalPlayers < MaxPlayers
  /\ SetNewGame(totalPlayers + 1, roleCounts, hasManualRoleEdits)
  /\ UNCHANGED <<socketVars, session, dashVars, viewVars, assignVars, payloadVars,
                 serviceVars, timelineVars, loadVars>>

\* The host deselects a friend or removes a custom player.
RemovePlayer ==
  /\ totalPlayers > 0
  /\ SetNewGame(totalPlayers - 1, roleCounts, hasManualRoleEdits)
  /\ UNCHANGED <<socketVars, session, dashVars, viewVars, assignVars, payloadVars,
                 serviceVars, timelineVars, loadVars>>

\* adjustRoleCount(role, delta)
adjustRoleCount ==
  /\ \E role \in ROLE_KEYS, delta \in {-1, 1} :
       LET nextValue == Max(0, roleCounts[role] + delta)
       IN /\ nextValue <= MaxPlayers
          /\ SetNewGame(totalPlayers, [roleCounts EXCEPT ![role] = nextValue], TRUE)
  /\ UNCHANGED <<socketVars, session, dashVars, viewVars, assignVars, payloadVars,
                 serviceVars, timelineVars, loadVars>>

\* applySuggestedRoles; its button is disabled while there is no player.
applySuggestedRoles ==
  /\ totalPlayers > 0
  /\ SetNewGame(totalPlayers, getSuggestedRoleCounts(totalPlayers), FALSE)
  /\ UNCHANGED <<socketVars, session, dashVars, viewVars, assignVars, payloadVars,
                 serviceVars, timelineVars, loadVars>>

NoStartTask == [pc |-> "idle", state |-> "idle", payload |-> <<>>]

\* The page after its load effect ran for a pending game of n players, none
\* of whom has a role yet.
InitAssign(n, c) ==
  /\ pendingGame = [players |-> n, status |-> "pending", roles |-> [p \in PlayerIds(n) |-> "none"]]
  /\ counts = c
  /\ assignments = [p \in PlayerIds(n) |-> "none"]
  /\ assignError = "none"
  /\ startTask = NoStartTask

assignPlayers == PlayerIds(pendingGame.players)

\* playersByRole[role].length
AssignedCount(a, role) == Cardinality({p \in DOMAIN a : a[p] = role})

unassignedPlayers == {p \in assignPlayers : assignments[p] = "none"}

totalSlots == SlotSum(counts)

slotsMatch == totalSlots = pendingGame.players

\* RoleColumn: canDrop
canDrop(role) == AssignedCount(assignments, role) < counts[role] \/ counts[role] = 0

\* isComplete
isComplete ==
  /\ unassignedPlayers = {}
  /\ \A role \in ROLE_KEYS :
       counts[role] = 0 \/ AssignedCount(assignments, role) = counts[role]

\* The page shows its columns and buttons.
AssignShown == assignError = "none" /\ startTask.pc # "done"

\* The host moves no card while a start is in flight: the request carries the
\* assignment of the click, and the page is left or replaced by the error
\* text when the request settles.
HostEdits == AssignShown /\ startTask.pc = "idle"

\* handleDrop: an unassigned player's card is dropped on a role column.
handleDrop ==
  /\ HostEdits
  /\ \E player \in unassignedPlayers : \E role \in ROLE_KEYS :
       /\ canDrop(role)
       /\ assignments' = [assignments EXCEPT ![player] = role]
  /\ UNCHANGED <<socketVars, session, dashVars, viewVars, payloadVars, serviceVars, timelineVars, loadVars, newGameVars, pendingGame, counts, assignError,
                 startTask>>

\* handleRemove: an assigned player's card is clicked.
handleRemove ==
  /\ HostEdits
  /\ \E playerId \in assignPlayers \ unassignedPlayers :
       assignments' = [assignments EXCEPT ![playerId] = "none"]
  /\ UNCHANGED <<socketVars, session, dashVars, viewVars, payloadVars, serviceVars, timelineVars, loadVars, newGameVars, pendingGame, counts, assignError,
                 startTask>>

\* handleStartGame up to its first request, api.assignRoles; the button is
\* disabled unless isComplete.
handleStartGame ==
  /\ AssignShown /\ isComplete
  /\ startTask.pc = "idle"
  /\ startTask' = [pc |-> "assign", state |-> "sent", payload |-> <<assignments>>]
  /\ UNCHANGED <<socketVars, session, dashVars, viewVars, payloadVars, serviceVars, timelineVars, loadVars, newGameVars, pendingGame, counts, assignments,
                 assignError>>

\* assign_roles at the service, which knows the players but no role counts:
\* every player gets exactly one role, while the game is pending.
SrvAssignRoles(g, payload) ==
  IF g.status = "pending" /\ DOMAIN payload = PlayerIds(g.players)
       /\ \A p \in DOMAIN payload : payload[p] \in ROLE_KEYS
    THEN [ok |-> TRUE, game |-> [g EXCEPT !.roles = payload]]
    ELSE [ok |-> FALSE, game |-> g]

\* start at the service: legal from pending once every player has a role.
SrvStartGame(g) ==
  IF g.status = "pending" /\ \A p \in PlayerIds(g.players) : g.roles[p] \in ROLE_KEYS
    THEN [ok |-> TRUE, game |-> [g EXCEPT !.status = "active"]]
    ELSE [ok |-> FALSE, game |-> g]

\* The service handles the request handleStartGame has outstanding.
StartServiceHandles ==
  /\ startTask.state = "sent"
  /\ LET r == IF startTask.pc = "assign"
                THEN SrvAssignRoles(pendingGame, startTask.payload[1])
                ELSE SrvStartGame(pendingGame)
     IN /\ pendingGame' = r.game
        /\ startTask' = [startTask EXCEPT !.state = IF r.ok THEN "ok" ELSE "fail"]
  /\ UNCHANGED <<socketVars, session, dashVars, viewVars, payloadVars, serviceVars, timelineVars, loadVars, newGameVars, counts, assignments, assignError>>

\* The request fails in transport or persistence.
StartRequestFails ==
  /\ startTask.state = "sent"
  /\ startTask' = [startTask EXCEPT !.state = "fail"]
  /\ UNCHANGED <<socketVars, session, dashVars, viewVars, payloadVars, serviceVars, timelineVars, loadVars, newGameVars, pendingGame, counts, assignments,
                 assignError>>

\* handleStartGame that goes on to api.startGame although api.assignRoles
\* failed (a mutation).
StartGameResumesIgnoresFailure ==
  /\ startTask.state \in {"ok", "fail"}
  /\ IF startTask.state = "fail" /\ startTask.pc # "assign"
       THEN /\ startTask' = NoStartTask
            /\ assignError' = IF startTask.pc # "done" THEN "failed" ELSE assignError
       ELSE /\ startTask' = IF startTask.pc = "assign"
                              THEN [startTask EXCEPT !.pc = "start", !.state = "sent"]
                              ELSE [NoStartTask EXCEPT !.pc = "done"]
            /\ UNCHANGED assignError
  /\ UNCHANGED <<socketVars, session, dashVars, viewVars, payloadVars, serviceVars, timelineVars, loadVars, newGameVars,
                 pendingGame, counts, assignments>>

\* handleStartGame continues: after assignRoles it calls api.startGame, after
\* startGame it navigates to the dashboard; the catch sets the error.
StartGameResumes ==
  /\ startTask.state \in {"ok", "fail"}
  /\ IF startTask.state = "fail"
       THEN /\ startTask' = NoStartTask
            /\ assignError' = IF startTask.pc # "done" THEN "failed" ELSE assignError
       ELSE /\ startTask' = IF startTask.pc = "assign"
                              THEN [startTask EXCEPT !.pc = "start", !.state = "sent"]
                              ELSE [NoStartTask EXCEPT !.pc = "done"]
            /\ UNCHANGED assignError
  /\ UNCHANGED <<socketVars, session, dashVars, viewVars, payloadVars, serviceVars, timelineVars, loadVars, newGameVars, pendingGame, counts, assignments>>

(***************************************************************************)
(* LogTimeline: the log panel of the dashboard and of the game-over page.  *)
(***************************************************************************)
MaxLogs == 3
MaxTime == 3
MaxLogRound == 2

\* Array.prototype.sort with a comparator that compares key[i]: stable,
\* ascending in the key.
StableSort(items, key) ==
  LET n == Len(items)
      pos(i) == 1 + Cardinality({j \in 1..n : key[j] < key[i] \/ (key[j] = key[i] /\ j < i)})
  IN [k \in 1..n |-> items[CHOOSE i \in 1..n : pos(i) = k]]

\* new Date(log.timestamp).getTime(): timestamps are kept as their time value.
getTime(log) == log.timestamp

\* `${log.phase}-${log.round}`
GroupKey(log) == <<log.phase, log.round>>

\* groupedLogs: newest first by timestamp, filter, group by phase and round
\* in order of first appearance, each group's entries oldest first, the
\* groups by their latest timestamp, newest first.
GroupedLogs(logs, filter) ==
  IF Len(logs) = 0 THEN <<>>
  ELSE
    LET orderedLogs == StableSort(logs, [i \in 1..Len(logs) |-> 0 - getTime(logs[i])])
        Relevant(log) == ~(filter /\ log.switch)
        relevantLogs == SelectSeq(orderedLogs, Relevant)
        n == Len(relevantLogs)
        firsts == {i \in 1..n :
                     \A j \in 1..(i - 1) : GroupKey(relevantLogs[j]) # GroupKey(relevantLogs[i])}
        first(k) == CHOOSE i \in firsts : Cardinality({j \in firsts : j < i}) = k - 1
        group(i) ==
          LET Member(log) == GroupKey(log) = GroupKey(relevantLogs[i])
              members == SelectSeq(relevantLogs, Member)
              times == [m \in 1..Len(members) |-> getTime(members[m])]
          IN [phase |-> relevantLogs[i].phase,
              round |-> relevantLogs[i].round,
              logs |-> StableSort(members, times),
              latestTimestamp |->
                CHOOSE t \in {times[m] : m \in 1..Len(members)} :
                  \A m \in 1..Len(members) : times[m] <= t]
        groups == [k \in 1..Cardinality(firsts) |-> group(first(k))]
    IN StableSort(groups, [k \in 1..Len(groups) |-> 0 - groups[k].latestTimestamp])

\* The session's place in time that an entry is tagged with.
LogTag(log) == 2 * log.round + (IF log.phase = "night" THEN 1 ELSE 0)

\* The panel before the session logged anything.
InitTimeline ==
  /\ timelineLogs = <<>>
  /\ filterPhaseSwitch = FALSE
  /\ groupedLogs = <<>>

\* The session appends an entry, tagged with its round and phase, and the
\* panel renders the new log.
TimelineRenders ==
  /\ Len(timelineLogs) < MaxLogs
  /\ \E round \in 1..MaxLogRound : \E phase \in {"day", "night"} :
     \E timestamp \in 1..MaxTime : \E switch \in BOOLEAN : \E filter \in BOOLEAN :
       LET log == [id |-> Len(timelineLogs) + 1, round |-> round, phase |-> phase,
                   timestamp |-> timestamp, switch |-> switch]
       IN /\ Len(timelineLogs) > 0 =>
               LogTag(timelineLogs[Len(timelineLogs)]) <= LogTag(log)
          /\ timelineLogs' = Append(timelineLogs, log)
          /\ filterPhaseSwitch' = filter
          /\ groupedLogs' = GroupedLogs(timelineLogs', filter)
  /\ UNCHANGED <<socketVars, session, dashVars, viewVars, assignVars, payloadVars, serviceVars,
                 loadVars, newGameVars>>

\* The state of the game service and of the dashboard right after the host
\* started the game and the dashboard loaded it.
InitGame ==
  /\ session = SessionAfterStart
  /\ game = Snapshot(SessionAfterStart)
  /\ error = "none"
  /\ voteTarget = "none"
  /\ plannedNightActions = NoPlan
  /\ processingQueuedActions = FALSE
  /\ page = "dashboard"
  /\ tasks = [t \in TaskIds |-> IdleTask]
  /\ reply = NoReply
  /\ loads = [l \in LoadIds |-> IdleLoad]
  /\ delivered = <<>>
  /\ totalPlayers = 0
  /\ roleCounts = [role \in {"Mafia", "Detective", "Doctor", "Villager", "Jester"} |->
                     IF role = "Villager" THEN 2 ELSE IF role = "Jester" THEN 0 ELSE 1]
  /\ hasManualRoleEdits = FALSE

\* Nothing has arrived on the display's socket yet.
InitPayload ==
  /\ rawPayload = <<>>
  /\ handed = <<>>
  /\ pageEffect = "none"

InitSocket ==
  /\ InitGame
  /\ InitView
  /\ InitAssign(5, DEFAULT_COUNTS)
  /\ InitPayload
  /\ InitTimeline
  /\ mounted = FALSE
  /\ enabled = FALSE
  /\ gameId = "none"
  /\ optMaximumDelayMs = <<>>
  /\ status = "closed"
  /\ socketRef = 0
  /\ reconnectTimerRef = 0
  /\ reconnectAttempts = 0
  /\ sockets = [s \in SocketIds |-> ClosedSocket]
  /\ timers = [t \in TimerIds |-> NoTimer]
  /\ delayLog = <<>>
  /\ failedBeforeOpen = 0

\* The component mounts: first render and first effect run.
Mount ==
  /\ UNCHANGED <<session, dashVars, viewVars, assignVars, payloadVars, serviceVars, timelineVars, loadVars, newGameVars>>
  /\ ~mounted
  /\ status = "closed" /\ reconnectAttempts = 0
  /\ \A s \in SocketIds : sockets[s].state = "closed"
  /\ \E e \in BOOLEAN, g \in GameIdValues, m \in MaximumDelayOptions :
       /\ mounted' = TRUE
       /\ enabled' = e
       /\ gameId' = g
       /\ optMaximumDelayMs' = m
       /\ SetHook(EffectBody(HookState, e, g, m))

\* enabled or gameId change: the previous effect is cleaned up and the effect
\* runs again with the new values.
SetProps ==
  /\ UNCHANGED <<session, dashVars, viewVars, assignVars, payloadVars, serviceVars, timelineVars, loadVars, newGameVars>>
  /\ mounted
  /\ \E e \in BOOLEAN, g \in GameIdValues :
       /\ <<e, g>> # <<enabled, gameId>>
       /\ (e /\ g # "none") => FreeSockets(EffectCleanup(HookState)) # {}
       /\ enabled' = e
       /\ gameId' = g
       /\ SetHook(EffectBody(EffectCleanup(HookState), e, g, optMaximumDelayMs))
       /\ UNCHANGED <<mounted, optMaximumDelayMs>>

\* The component unmounts: the last effect's cleanup runs.
Unmount ==
  /\ UNCHANGED <<session, dashVars, viewVars, assignVars, payloadVars, serviceVars, timelineVars, loadVars, newGameVars>>
  /\ mounted
  /\ mounted' = FALSE
  /\ SetHook(EffectCleanup(HookState))
  /\ UNCHANGED <<enabled, gameId, optMaximumDelayMs>>

\* socket.onopen that leaves the attempt counter as it is (a mutation).
OnOpenKeepsCounter(h, s) ==
  IF ~h.sockets[s].active THEN h
  ELSE [h EXCEPT !.status = "open", !.failedBeforeOpen = h.reconnectAttempts]

\* socket.onopen
OnOpen(h, s) ==
  IF ~h.sockets[s].active THEN h
  ELSE [h EXCEPT !.reconnectAttempts = 0, !.status = "open", !.delayLog = <<>>,
                 !.failedBeforeOpen = h.reconnectAttempts]

\* socket.onclose that schedules nothing (a mutation).
OnCloseSchedulesNothing(h, s) == h

\* socket.onclose (enabled is true in every closure that has a socket)
OnClose(h, s) ==
  IF ~h.sockets[s].active THEN h
  ELSE scheduleReconnect(h, TRUE, h.sockets[s].maximumDelayMs)

\* socket.onerror that also schedules the reconnect itself (a mutation).
OnErrorAlsoSchedules(h, s) ==
  IF ~h.sockets[s].active THEN h
  ELSE scheduleReconnect([h EXCEPT !.status = "error",
                                   !.sockets[s] = CloseSocket(h.sockets[s])],
                         TRUE, h.sockets[s].maximumDelayMs)

\* socket.onerror
OnError(h, s) ==
  IF ~h.sockets[s].active THEN h
  ELSE [h EXCEPT !.status = "error", !.sockets[s] = CloseSocket(h.sockets[s])]

\* The browser establishes the connection and fires `open`.
SocketOpens ==
  /\ UNCHANGED <<session, dashVars, viewVars, assignVars, payloadVars, serviceVars, timelineVars, loadVars, newGameVars>>
  /\ \E s \in SocketIds :
    /\ sockets[s].state = "connecting"
    /\ LET h1 == [HookState EXCEPT !.sockets[s].state = "open"]
       IN SetHook(IF h1.sockets[s].hooked THEN OnOpen(h1, s) ELSE h1)
    /\ UNCHANGED <<mounted, enabled, gameId, optMaximumDelayMs>>

\* A connection failure that also reaches the page's error state (a mutation).
SocketErrorsSetsPageError ==
  /\ viewError' = "failed"
  /\ UNCHANGED <<session, dashVars, viewGame, viewLoad, inbox, assignVars, payloadVars,
                 serviceVars, timelineVars, loadVars, newGameVars>>
  /\ \E s \in SocketIds :
    /\ sockets[s].state \in {"connecting", "open"}
    /\ LET h1 == IF sockets[s].hooked THEN OnError(HookState, s) ELSE HookState
           h2 == [h1 EXCEPT !.sockets[s] = CloseSocket(h1.sockets[s])]
       IN SetHook(h2)
    /\ UNCHANGED <<mounted, enabled, gameId, optMaximumDelayMs>>

\* The connection fails: the browser fires `error` and starts closing.
SocketErrors ==
  /\ UNCHANGED <<session, dashVars, viewVars, assignVars, payloadVars, serviceVars, timelineVars, loadVars, newGameVars>>
  /\ \E s \in SocketIds :
    /\ sockets[s].state \in {"connecting", "open"}
    /\ LET h1 == IF sockets[s].hooked THEN OnError(HookState, s) ELSE HookState
           h2 == [h1 EXCEPT !.sockets[s] = CloseSocket(h1.sockets[s])]
       IN SetHook(h2)
    /\ UNCHANGED <<mounted, enabled, gameId, optMaximumDelayMs>>

\* The connection is closed (by the server, by a failure, or after close()):
\* the browser fires `close`; the socket fires nothing afterwards.
SocketCloses ==
  /\ UNCHANGED <<session, dashVars, viewVars, assignVars, payloadVars, serviceVars, timelineVars, loadVars, newGameVars>>
  /\ \E s \in SocketIds :
    /\ sockets[s].state \in {"connecting", "open", "closing"}
    /\ (sockets[s].hooked /\ sockets[s].active) =>
          (reconnectAttempts < MaxAttempts /\ FreeTimers(HookState) # {})
    /\ LET h1 == IF sockets[s].hooked THEN OnClose(HookState, s) ELSE HookState
       IN SetHook([h1 EXCEPT !.sockets[s] = ClosedSocket])
    /\ UNCHANGED <<mounted, enabled, gameId, optMaximumDelayMs>>

\* A pending timeout fires: reconnectTimerRef.current = null; connect().
TimerFires ==
  /\ UNCHANGED <<session, dashVars, viewVars, assignVars, payloadVars, serviceVars, timelineVars, loadVars, newGameVars>>
  /\ \E t \in TimerIds :
    /\ timers[t].pending
    /\ timers[t].active => FreeSockets(HookState) # {}
    /\ LET h1 == [HookState EXCEPT !.timers[t] = NoTimer, !.reconnectTimerRef = 0]
       IN SetHook(connect(h1, timers[t].active, timers[t].maximumDelayMs))
    /\ UNCHANGED <<mounted, enabled, gameId, optMaximumDelayMs>>

NextSocket ==
  \/ Mount
  \/ SetProps
  \/ Unmount
  \/ SocketOpens
  \/ SocketErrors
  \/ SocketCloses
  \/ TimerFires

SpecSocket == InitSocket /\ [][NextSocket]_vars

(***************************************************************************)
(* useGameSocket: properties.                                              *)
(***************************************************************************)
LiveSockets == {s \in SocketIds : sockets[s].state \in {"connecting", "open"}}
PendingTimers == {t \in TimerIds : timers[t].pending}
Disabled == ~mounted \/ ~enabled \/ gameId = "none"

\* 1, 2, 4, 8, 16, 30, 30, ... seconds
ExpectedDefaultDelay(i) ==
  IF i <= 5 THEN <<1000, 2000, 4000, 8000, 16000>>[i] ELSE 30000

\* The `close` event reaches the onclose handler of the current cycle's socket.
UnexpectedClose ==
  \E s \in SocketIds : /\ sockets[s].state # "closed"
                       /\ sockets[s].hooked /\ sockets[s].active
                       /\ sockets'[s].state = "closed"

\* C1: with the default ceiling, every unexpected close while enabled first
\* increments the attempt counter and then schedules a reconnect after
\* min(30 s, 1 s * 2^(attempt-1)); counted from 0, consecutive failures are
\* scheduled after 1, 2, 4, 8, 16, 30, 30, ... seconds.
C1_BackoffSchedule ==
  /\ [](optMaximumDelayMs = <<>> =>
          /\ Len(delayLog) = reconnectAttempts
          /\ \A i \in 1..Len(delayLog) : delayLog[i] = ExpectedDefaultDelay(i)
          /\ \A t \in PendingTimers : timers[t].delay = ExpectedDefaultDelay(reconnectAttempts))
  /\ [][(optMaximumDelayMs = <<>> /\ UnexpectedClose) =>
          /\ reconnectAttempts' = reconnectAttempts + 1
          /\ reconnectTimerRef' # 0
          /\ timers'[reconnectTimerRef'].pending
          /\ timers'[reconnectTimerRef'].delay = ExpectedDefaultDelay(reconnectAttempts')]_vars

C1_Witness ==
  /\ optMaximumDelayMs = <<>>
  /\ reconnectAttempts = 7
  /\ delayLog = <<1000, 2000, 4000, 8000, 16000, 30000, 30000>>
  /\ reconnectTimerRef # 0 /\ timers[reconnectTimerRef].pending

HookQuiet ==
  /\ reconnectTimerRef = 0
  /\ socketRef = 0
  /\ PendingTimers = {}
  /\ LiveSockets = {}
  /\ \A s \in SocketIds : ~sockets[s].hooked

\* C2: disabling the viewer (enabled false, no game id, or unmount) clears the
\* pending reconnect timer and closes the current socket; while it stays
\* disabled no reconnect is scheduled, no socket is created, and late events of
\* an old socket change nothing of the hook.
C2_DisableIsClean ==
  /\ [](Disabled => HookQuiet)
  /\ [][(Disabled /\ Disabled') =>
          /\ UNCHANGED <<status, reconnectAttempts, reconnectTimerRef, socketRef, timers>>
          /\ \A s \in SocketIds : sockets'[s].state \in {sockets[s].state, "closed"}]_vars

C2_Witness ==
  /\ Disabled
  /\ reconnectAttempts > 0
  /\ \E s \in SocketIds : sockets[s].state = "closing"

\* C3: at most one socket is connecting or open, at most one reconnect timer is
\* pending, never both together; the live socket and the pending timer belong
\* to the current connect cycle, so no timer of an ended cycle can fire.
C3_SingleConnection ==
  /\ Cardinality(LiveSockets) <= 1
  /\ Cardinality(PendingTimers) <= 1
  /\ ~(LiveSockets # {} /\ PendingTimers # {})
  /\ \A t \in PendingTimers : timers[t].active /\ t = reconnectTimerRef
  /\ \A s \in LiveSockets : sockets[s].active /\ sockets[s].hooked /\ s = socketRef

C3_Witness ==
  /\ PendingTimers # {}
  /\ \E s \in SocketIds : sockets[s].state = "closing" /\ ~sockets[s].active

\* The ceiling of the current mount: maximumDelayMs = 30_000 unless given.
Ceiling == IF optMaximumDelayMs = <<>> THEN DefaultMaximumDelayMs ELSE optMaximumDelayMs[1]

\* C11: over a run of failed connection attempts with no successful open in
\* between, the scheduled reconnect delays never decrease and never exceed the
\* configured ceiling.
C11_BackoffMonotone ==
  /\ Len(delayLog) = reconnectAttempts
  /\ \A i \in 1..Len(delayLog) :
       /\ delayLog[i] <= Ceiling
       /\ i > 1 => delayLog[i - 1] <= delayLog[i]
  /\ \A t \in PendingTimers : timers[t].delay <= Ceiling

\* A run that reached a configured ceiling of 5 s and stayed there.
C11_Witness ==
  /\ optMaximumDelayMs = <<5000>>
  /\ delayLog = <<1000, 2000, 4000, 5000, 5000>>
  /\ reconnectTimerRef # 0 /\ timers[reconnectTimerRef].pending

\* The `open` event reaches the onopen handler of the current cycle's socket.
SuccessfulOpen ==
  \E s \in SocketIds : /\ sockets[s].state = "connecting"
                       /\ sockets[s].hooked /\ sockets[s].active
                       /\ sockets'[s].state = "open"

\* C12: a successful open sets the attempt counter to 0, it stays 0 while
\* that socket is open, and the reconnect scheduled when the counter is 0 (the
\* first after an open) waits the base delay of 1 s.
C12_OpenResetsCounter ==
  /\ [](\A s \in SocketIds :
          (sockets[s].state = "open" /\ sockets[s].hooked /\ sockets[s].active)
             => reconnectAttempts = 0)
  /\ [][SuccessfulOpen => reconnectAttempts' = 0]_vars
  /\ [][(UnexpectedClose /\ reconnectAttempts = 0) =>
          /\ reconnectAttempts' = 1
          /\ timers'[reconnectTimerRef'].pending
          /\ timers'[reconnectTimerRef'].delay = BaseDelayMs]_vars

\* Three or more failures, then an open, then the first reconnect at 1 s.
C12_Witness ==
  /\ failedBeforeOpen >= 3
  /\ delayLog = <<BaseDelayMs>>
  /\ reconnectTimerRef # 0 /\ timers[reconnectTimerRef].pending
  /\ timers[reconnectTimerRef].delay = BaseDelayMs

\* The browser delivers the close event of every socket that is closing.
SpecSocketFair == SpecSocket /\ WF_vars(SocketCloses)

\* A socket of the running cycle reports an error in this step.
ErrorReported ==
  \E s \in SocketIds : /\ sockets[s].hooked /\ sockets[s].active
                       /\ sockets[s].state \in {"connecting", "open"}
                       /\ sockets'[s].hooked /\ sockets'[s].state = "closing"

\* The socket whose error put the hook into the error status: closed by the
\* handler, its close event not yet delivered.
ErrorSockets ==
  {s \in SocketIds : sockets[s].hooked /\ sockets[s].active /\ sockets[s].state = "closing"}

\* C22: the error status is transient. A reported socket error sets the
\* status to error and closes that socket; while the status is error the
\* close event of that socket is still to come; its delivery schedules the
\* reconnect (status reconnecting, timer pending); so the viewer leaves the
\* error status again.
C22_ErrorIsTransient ==
  /\ [][ErrorReported => status' = "error"]_vars
  /\ []((status = "error" /\ mounted) => ErrorSockets # {})
  /\ [][(status = "error" /\ mounted /\ UnexpectedClose) =>
          /\ status' = "reconnecting"
          /\ reconnectTimerRef' # 0 /\ timers'[reconnectTimerRef'].pending]_vars
  /\ (status = "error" /\ mounted /\ reconnectAttempts < MaxAttempts)
        ~> (status # "error" \/ ~mounted)

\* A reconnect attempt has just reported an error.
C22_Witness ==
  /\ status = "error" /\ mounted /\ enabled
  /\ reconnectAttempts >= 1
  /\ ErrorSockets # {}

\* The effect of useGameSocket runs with a game id and enabled, after a mount
\* or a change of enabled or gameId: a connect cycle starts, in this step.
CycleStarts ==
  /\ mounted' /\ enabled' /\ gameId' # "none"
  /\ <<mounted, enabled, gameId>> # <<mounted', enabled', gameId'>>

\* C25: every new connect cycle starts clean: its first attempt reports the
\* status connecting with the attempt count 0, whatever failures an earlier
\* cycle counted.
C25_CycleStartsClean ==
  [][CycleStarts => (status' = "connecting" /\ reconnectAttempts' = 0)]_vars

\* The browser delivers the close event of a socket and fires a pending
\* timeout; a connection that stays in the making is established.
SpecSocketLive ==
  SpecSocket /\ WF_vars(SocketCloses) /\ WF_vars(TimerFires) /\ WF_vars(SocketOpens)

\* The reconnect of the running cycle is scheduled.
RetryPending ==
  /\ reconnectTimerRef # 0
  /\ timers[reconnectTimerRef].pending /\ timers[reconnectTimerRef].active

\* The running cycle has a connection in the making or established.
Attempting ==
  /\ socketRef # 0
  /\ sockets[socketRef].hooked /\ sockets[socketRef].active
  /\ sockets[socketRef].state \in {"connecting", "open"}

\* A step in which the props stay as they are and no connection of the running
\* cycle fails.
StableAndAccepted ==
  /\ UNCHANGED <<mounted, enabled, gameId>>
  /\ \A s \in SocketIds :
       (sockets[s].hooked /\ sockets[s].active /\ sockets[s].state \in {"connecting", "open"})
         => sockets'[s].state \in {"connecting", "open"}

NextDash ==
  \/ handleNightActionDrop
  \/ clearNightAction
  \/ handleVoteDrop
  \/ clearVote
  \/ switchPhase
  \/ finishGame
  \/ ServiceHandles
  \/ RequestFails
  \/ HandlerResumes

SpecDash == InitSocket /\ [][NextDash]_vars

\* A host who plans, ends phases and may reload the dashboard at any moment,
\* over a network that loses no request.
NextDashReload ==
  \/ handleNightActionDrop
  \/ clearNightAction
  \/ handleVoteDrop
  \/ clearVote
  \/ switchPhase
  \/ ServiceHandles
  \/ HandlerResumes
  \/ Reload

SpecDashReload == InitSocket /\ [][NextDashReload]_vars

\* A host who plans and ends phases while the dashboard's socket delivers
\* messages that make it reload the game.
NextDashLoad ==
  \/ handleVoteDrop
  \/ switchPhase
  \/ ServiceHandles
  \/ HandlerResumes
  \/ DashMessage
  \/ LoadServed
  \/ LoadFails
  \/ LoadResumes

SpecDashLoad == InitSocket /\ [][NextDashLoad]_vars

\* A host who plans the nights and ends phases over a network that may lose a
\* request, while the socket's messages make the dashboard reload the game.
NextDashRetry ==
  \/ handleNightActionDrop
  \/ switchPhase
  \/ ServiceHandles
  \/ RequestFails
  \/ HandlerResumes
  \/ DashMessage
  \/ LoadServed
  \/ LoadResumes

SpecDashRetry == InitSocket /\ [][NextDashRetry]_vars


(***************************************************************************)
(* Properties of the dashboard and the service.                            *)
(***************************************************************************)
\* The run of switchPhase in flight, if any.
Run == tasks["switchPhase"]

\* The service accepts the changePhase("day") of the run in this step: the
\* night resolves.
NightResolves ==
  /\ Run.pc = "phase" /\ Run.phase = "day" /\ Run.state = "sent"
  /\ tasks'["switchPhase"].state = "ok"

DayResolves ==
  /\ Run.pc = "phase" /\ Run.phase = "night" /\ Run.state = "sent"
  /\ tasks'["switchPhase"].state = "ok"

\* C18: ending a day eliminates exactly the vote target, if there is one:
\* when the host ends a day with a vote on an alive player P, only P's alive
\* flag changes and the log names P; with no vote the run sends no vote
\* action, nobody's flag changes and the log gets the no-elimination entry;
\* either way the phase flips to night.
C18_DayEliminatesVoteTarget ==
  /\ [](Run.pc = "vote" => Run.plan.vote # "none")
  /\ [][DayResolves =>
          /\ session'.phase = "night"
          /\ IF Run.plan.vote # "none" /\ session.alive[Run.plan.vote]
               THEN /\ session'.alive = [session.alive EXCEPT ![Run.plan.vote] = FALSE]
                    /\ session'.logs =
                         Append(session.logs,
                                LogEntry(session.round, "day", "eliminated", Run.plan.vote))
               ELSE /\ session'.alive = session.alive
                    /\ session'.logs =
                         Append(session.logs,
                                LogEntry(session.round, "day", "no_elimination", "none"))]_vars

\* The kinds of intent a run submits before it asks for the phase `phase`.
QueuedKinds(phase) == IF phase = "day" THEN NightActionType ELSE {"vote"}

\* C21: ending a phase keeps a strict order. When the phase change of a run is
\* outstanding, every action the run had queued for the ending phase is
\* recorded at the service; the phase change is never issued while a queued
\* action is unacknowledged, and never after one failed; when the phase
\* resolves, the log entries it adds (a quiet night adds none) carry the
\* ending phase and round and the phase flips in the same step.
C21_StrictOrder ==
  /\ []((Run.pc = "phase" /\ Run.state = "sent") =>
          \A kind \in QueuedKinds(Run.phase) :
            Run.plan[kind] # "none" => session.intents[kind] = Run.plan[kind])
  /\ [][(Run.pc \in QueuedKinds(Run.phase) /\ Run.state \in {"sent", "fail"}) =>
          tasks'["switchPhase"].pc # "phase"]_vars
  /\ [][(DayResolves \/ NightResolves) =>
          /\ session'.phase = Run.phase /\ session.phase # Run.phase
          /\ Len(session'.logs) >= Len(session.logs)
          /\ SubSeq(session'.logs, 1, Len(session.logs)) = session.logs
          /\ \A i \in (Len(session.logs) + 1)..Len(session'.logs) :
               /\ session'.logs[i].round = session.round
               /\ session'.logs[i].phase = session.phase]_vars

\* A night with a kill and a save elsewhere has resolved: the death is logged
\* under night 1 and the session is in day 2.
C21_Witness ==
  /\ Run.pc = "phase" /\ Run.phase = "day" /\ Run.state = "ok"
  /\ Run.plan.kill # "none" /\ Run.plan.save # "none" /\ Run.plan.save # Run.plan.kill
  /\ session.phase = "day" /\ session.round = 2
  /\ session.logs[Len(session.logs)] =
       LogEntry(1, "night", "killed", Run.plan.kill)

\* The order in which a run issues its requests.
RequestOrder(pc) ==
  IF pc = "idle" THEN 0 ELSE IF pc \in {"kill", "vote"} THEN 1 ELSE IF pc = "save" THEN 2
  ELSE IF pc = "investigate" THEN 3 ELSE 4

\* The service accepts the queued action the run has outstanding, in this step.
ActionAccepted ==
  /\ Run.pc \in NightActionType \cup {"vote"} /\ Run.state = "sent"
  /\ tasks'["switchPhase"].state = "ok"

\* C23: at most one intent of each kind is queued at any time. A drop on a
\* zone (or clearing it) replaces that zone's target and touches no other zone; End Night
\* takes the targets as they were last set; the run submits each kind at most
\* once, and a submission replaces the intent of its kind at the service and
\* leaves the other kinds alone; the day has the one vote target.
C23_OneIntentPerKind ==
  /\ [][(plannedNightActions' # plannedNightActions /\ plannedNightActions' # NoPlan) =>
          \E kind \in NightActionType :
            plannedNightActions' =
              [plannedNightActions EXCEPT ![kind] = plannedNightActions'[kind]]]_vars
  /\ [][(Run.kind = "idle" /\ tasks'["switchPhase"].kind = "switchPhase") =>
          /\ \A kind \in NightActionType :
               tasks'["switchPhase"].plan[kind] = plannedNightActions[kind]
          /\ tasks'["switchPhase"].plan.vote = voteTarget]_vars
  /\ [][(Run.kind = "switchPhase" /\ tasks'["switchPhase"].kind = "switchPhase"
         /\ tasks'["switchPhase"].pc # Run.pc) =>
          /\ RequestOrder(tasks'["switchPhase"].pc) > RequestOrder(Run.pc)
          /\ tasks'["switchPhase"].plan = Run.plan]_vars
  /\ [](Run.state = "sent" /\ Run.pc \in NightActionType \cup {"vote"} =>
          Run.plan[Run.pc] # "none")
  /\ [][ActionAccepted =>
          session'.intents = [session.intents EXCEPT ![Run.pc] = Run.plan[Run.pc]]]_vars

\* The kill submitted by a run that the host abandoned was replaced at the
\* service by the kill of the next run.
C23_Witness ==
  /\ Run.pc = "save" /\ Run.state = "sent"
  /\ Run.plan.kill = "p3" /\ session.intents.kill = "p3"
  /\ session.intents.investigate = "p3"
  /\ Run.plan.investigate = "none"

\* The service answers the changePhase of a run, in this step.
PhaseEndAnswered ==
  /\ Run.pc = "phase" /\ Run.state = "sent"
  /\ tasks'["switchPhase"].pc = "phase"
  /\ tasks'["switchPhase"].state \in {"ok", "fail"}

\* C24: an intent takes effect only on a player alive when it is resolved, and
\* a queued target that is dead by then is dropped without failing the phase
\* end: every player who dies was alive and was the kill or the vote target of
\* the ending phase, every log entry a resolution adds names nobody or a
\* player alive before it, and the service accepts every legal phase change
\* whatever the queued targets are, the investigation of the player killed in
\* the same night included.
C24_DeadTargetsDropped ==
  /\ [][\A p \in Players : (session.alive[p] /\ ~session'.alive[p]) =>
          /\ PhaseEndAnswered
          /\ p = session.intents[IF session.phase = "night" THEN "kill" ELSE "vote"]]_vars
  /\ [][\A i \in (Len(session.logs) + 1)..Len(session'.logs) :
          session'.logs[i].target # "none" => session.alive[session'.logs[i].target]]_vars
  /\ [][(PhaseEndAnswered /\ Run.phase # session.phase /\ session.status = "active") =>
          /\ tasks'["switchPhase"].state = "ok"
          /\ session'.phase = Run.phase
          /\ session'.intents = NoIntents]_vars

\* A night ended although the investigation named the player it killed.
C24_Witness ==
  /\ Run.pc = "phase" /\ Run.phase = "day" /\ Run.state = "ok"
  /\ \E p \in Players :
       /\ Run.plan.kill = p /\ Run.plan.investigate = p /\ Run.plan.save # p
       /\ ~session.alive[p]
  /\ session.phase = "day" /\ session.intents = NoIntents

\* No request of the dashboard is outstanding: every handler has finished
\* and every loadGame has applied its response.
Quiet ==
  /\ \A t \in TaskIds : tasks[t].state = "idle"
  /\ \A l \in LoadIds : loads[l].state = "idle"

\* C26: reloads and command responses may complete in any order; once all
\* outstanding requests have completed, the game the dashboard shows is the
\* authoritative state of that moment.
C26_NewestShown ==
  (page = "dashboard" /\ Quiet) => game = Snapshot(session)

\* The dashboard sends the queued night action of a kind, in this step.
Submits(kind) ==
  /\ tasks'["switchPhase"].pc = kind /\ tasks'["switchPhase"].state = "sent"
  /\ ~(Run.pc = kind /\ Run.state = "sent")

\* C27: each queued night intent is submitted at most once per night: the
\* dashboard never sends a kill, save or investigate that the service already
\* holds from an earlier submission of the same night.
C27_SubmittedOnce ==
  [][\A kind \in NightActionType :
       Submits(kind) => session.intents[kind] # tasks'["switchPhase"].plan[kind]]_vars

\* C6: ending a phase is all-or-nothing: when a run of switchPhase has failed
\* and the phase has not changed, the service holds nothing that the run
\* submitted (no queued intent).
C6_AllOrNothing ==
  (Run.state = "fail" /\ session.status = "active" /\ session.phase # Run.phase)
     => session.intents = NoIntents

\* C7: at most one mutating request of the dashboard is outstanding at the
\* service at any time.
C7_Serialized == Cardinality({t \in TaskIds : tasks[t].state = "sent"}) <= 1

\* C10: no queued intent survives into the next phase: while the dashboard
\* shows a day no night action is planned, while it shows a night no vote
\* target is set.
C10_NoIntentSurvives ==
  page = "dashboard" =>
    /\ game.current_phase = "day" => plannedNightActions = NoPlan
    /\ game.current_phase = "night" => voteTarget = "none"

NextView ==
  \/ HostQueuesIntent
  \/ HostEndsPhase
  \/ HostFinishes
  \/ ForeignMessage
  \/ ViewLoadServed
  \/ ViewLoadFails
  \/ ViewLoadResumes
  \/ ViewOnMessage

SpecView == InitSocket /\ [][NextView]_vars

\* A dashboard and a public display of a game that another host runs, each
\* with its socket, which also delivers messages of other games.
NextMessages ==
  \/ HostEndsPhase
  \/ ForeignMessage
  \/ ViewLoadServed
  \/ ViewLoadFails
  \/ ViewLoadResumes
  \/ ViewOnMessage
  \/ DashMessage
  \/ LoadServed
  \/ LoadFails
  \/ LoadResumes

SpecMessages == InitSocket /\ [][NextMessages]_vars

\* The display's onMessage gets a message of another game, in this step.
ViewGetsForeign ==
  inbox # <<>> /\ inbox' = Tail(inbox) /\ Head(inbox).game_id # ViewGameId

\* C30: a socket message whose game_id differs from the page's game leaves
\* the page's state unchanged: the public view applies no snapshot and clears
\* no error, the dashboard starts no reload and keeps what it shows.
C30_ForeignIgnored ==
  /\ [][ViewGetsForeign =>
          (viewGame' = viewGame /\ viewError' = viewError /\ viewLoad' = viewLoad)]_vars
  /\ [][(delivered' = Append(delivered, "other")) =>
          (loads' = loads /\ game' = game /\ error' = error)]_vars

\* The dashboard shows its error after a message of another game reached it;
\* the display shows a game and its error, with no message left to deliver.
C30_Witness ==
  /\ error = "failed"
  /\ delivered = <<"mine", "other">>
  /\ \A l \in LoadIds : loads[l].state = "idle"
  /\ viewError = "failed" /\ viewGame # <<>> /\ inbox = <<>>

\* The place of a snapshot in the course of the game.
SnapshotRank(g) == 2 * (g.current_round - 1) + (IF g.current_phase = "night" THEN 1 ELSE 0)

\* C4: the round, phase and log shown by the public view never move
\* backwards, whatever the order in which snapshots arrive.
C4_NeverBackwards ==
  [][(viewGame # <<>> /\ viewGame' # <<>>) =>
        /\ SnapshotRank(viewGame'[1]) >= SnapshotRank(viewGame[1])
        /\ Len(viewGame'[1].logs) >= Len(viewGame[1].logs)]_vars

InitAssignAny ==
  /\ InitGame
  /\ InitView
  /\ InitPayload
  /\ InitTimeline
  /\ mounted = FALSE /\ enabled = FALSE /\ gameId = "none" /\ optMaximumDelayMs = <<>>
  /\ status = "closed" /\ socketRef = 0 /\ reconnectTimerRef = 0 /\ reconnectAttempts = 0
  /\ sockets = [s \in SocketIds |-> ClosedSocket]
  /\ timers = [t \in TimerIds |-> NoTimer]
  /\ delayLog = <<>>
  /\ failedBeforeOpen = 0
  /\ \E n \in 1..MaxPlayers : \E routerState \in RouterStates(n) :
       InitAssign(n, CountsFor(routerState))

NextAssign ==
  \/ handleDrop
  \/ handleRemove
  \/ handleStartGame
  \/ StartServiceHandles
  \/ StartRequestFails
  \/ StartGameResumes

SpecAssign == InitAssignAny /\ [][NextAssign]_vars

\* C8: Start Game is available only for an assignment in which every player
\* has exactly one role and every role holds exactly its configured count of
\* players, a role of count zero holding none.
C8_AcceptedIsValid ==
  isComplete =>
    /\ unassignedPlayers = {}
    /\ \A role \in ROLE_KEYS : AssignedCount(assignments, role) = counts[role]

\* C9: a game is started only if the configured role counts add up to the
\* number of players; otherwise its status stays pending.
C9_StartNeedsSlotsMatch == pendingGame.status = "active" => slotsMatch

\* Every player of the game holds a role at the service.
EveryoneHasRole == \A p \in assignPlayers : pendingGame.roles[p] \in ROLE_KEYS

\* C20: whenever the session is active every player has a role, and the page
\* issues start only after the service accepted an assignment that gives a
\* role to every player of the game.
C20_ActiveMeansRoles ==
  /\ pendingGame.status = "active" => EveryoneHasRole
  /\ startTask.pc = "start" => EveryoneHasRole

\* The game was started from the page and the host was sent to the dashboard.
C20_Witness ==
  /\ pendingGame.status = "active" /\ startTask.pc = "done"
  /\ pendingGame.players >= 3
  /\ EveryoneHasRole

\* The display has loaded its game, or failed to, and listens on its socket.
InitPayloadAny ==
  /\ InitGame
  /\ InitAssign(5, DEFAULT_COUNTS)
  /\ InitPayload
  /\ InitTimeline
  /\ mounted = FALSE /\ enabled = FALSE /\ gameId = "none" /\ optMaximumDelayMs = <<>>
  /\ status = "closed" /\ socketRef = 0 /\ reconnectTimerRef = 0 /\ reconnectAttempts = 0
  /\ sockets = [s \in SocketIds |-> ClosedSocket]
  /\ timers = [t \in TimerIds |-> NoTimer]
  /\ delayLog = <<>>
  /\ failedBeforeOpen = 0
  /\ viewGame = <<Snapshot(SessionAfterStart)>>
  /\ viewError \in {"none", "failed"}
  /\ viewLoad = [state |-> "done", resp |-> <<>>]
  /\ inbox = <<>>

NextPayload == SocketMessage

SpecPayload == InitPayloadAny /\ [][NextPayload]_vars

\* C13: an inbound payload that does not match the snapshot schema is dropped:
\* onMessage is not called for it, nothing throws, and the displayed game, the
\* page's error, the connection status and the attempt counter stay as they
\* were.
C13_MalformedDropped ==
  [][(rawPayload' # <<>> /\ ~MatchesSchema(rawPayload'[1])) =>
        /\ handed' = <<>>
        /\ pageEffect' = "none"
        /\ UNCHANGED <<viewGame, viewError, status, reconnectAttempts>>]_vars

(***************************************************************************)
(* The session's state machine under every command the API offers, legal   *)
(* or not, in any order.                                                   *)
(***************************************************************************)
\* start at the session: legal only from pending with every player in a role.
SrvStart(s, g) ==
  IF s.status = "pending" /\ SrvStartGame(g).ok
    THEN Accept(SessionAfterStart)
    ELSE Reject(s)

\* The assignments the host submits: a complete one and one with a gap.
RolePayloads ==
  {[p \in PlayerIds(3) |-> IF p = 1 THEN "Mafia" ELSE IF p = 2 THEN "Detective" ELSE "Villager"],
   [p \in PlayerIds(3) |-> IF p = 1 THEN "Mafia" ELSE "none"]}

\* The service's answer to a command.
Answer(command, arg, ok) ==
  reply' = [command |-> command, arg |-> arg, ok |-> ok, seq |-> 1 - reply.seq]

InitService ==
  /\ session = PendingSession
  /\ game = Snapshot(PendingSession)
  /\ error = "none"
  /\ voteTarget = "none"
  /\ plannedNightActions = NoPlan
  /\ processingQueuedActions = FALSE
  /\ page = "dashboard"
  /\ tasks = [t \in TaskIds |-> IdleTask]
  /\ reply = NoReply
  /\ loads = [l \in LoadIds |-> IdleLoad]
  /\ delivered = <<>>
  /\ totalPlayers = 0
  /\ roleCounts = [role \in {"Mafia", "Detective", "Doctor", "Villager", "Jester"} |->
                     IF role = "Villager" THEN 2 ELSE IF role = "Jester" THEN 0 ELSE 1]
  /\ hasManualRoleEdits = FALSE
  /\ InitView
  /\ InitAssign(3, DEFAULT_COUNTS)
  /\ InitPayload
  /\ InitTimeline
  /\ mounted = FALSE /\ enabled = FALSE /\ gameId = "none" /\ optMaximumDelayMs = <<>>
  /\ status = "closed" /\ socketRef = 0 /\ reconnectTimerRef = 0 /\ reconnectAttempts = 0
  /\ sockets = [s \in SocketIds |-> ClosedSocket]
  /\ timers = [t \in TimerIds |-> NoTimer]
  /\ delayLog = <<>>
  /\ failedBeforeOpen = 0

\* api.assignRoles
CmdAssignRoles ==
  /\ \E payload \in RolePayloads :
       LET r == SrvAssignRoles(pendingGame, payload)
       IN pendingGame' = r.game /\ Answer("assignRoles", "none", r.ok)
  /\ UNCHANGED <<socketVars, session, dashVars, viewVars, payloadVars, timelineVars, loadVars, newGameVars, counts, assignments,
                 assignError, startTask>>

\* api.startGame
CmdStart ==
  /\ LET r == SrvStart(session, pendingGame)
     IN /\ session' = r.session
        /\ pendingGame' = IF r.ok THEN SrvStartGame(pendingGame).game ELSE pendingGame
        /\ Answer("start", "none", r.ok)
  /\ UNCHANGED <<socketVars, dashVars, viewVars, payloadVars, timelineVars, loadVars, newGameVars, counts, assignments,
                 assignError, startTask>>

\* api.sendAction
CmdSendAction ==
  /\ \E kind \in NightActionType \cup {"vote"} : \E target \in Players :
       LET r == SrvSendAction(session, kind, target)
       IN session' = r.session /\ Answer("sendAction", kind, r.ok)
  /\ UNCHANGED <<socketVars, dashVars, viewVars, payloadVars, timelineVars, loadVars, newGameVars, assignVars>>

\* api.changePhase
CmdChangePhase ==
  /\ \E phase \in {"day", "night"} :
       LET r == SrvChangePhase(session, phase)
       IN /\ PhaseChanges(r.session) <= MaxPhaseChanges
          /\ session' = r.session
          /\ Answer("endPhase", phase, r.ok)
  /\ UNCHANGED <<socketVars, dashVars, viewVars, payloadVars, timelineVars, loadVars, newGameVars, assignVars>>

\* api.finishGame
CmdFinish ==
  /\ \E team \in {"Villagers", "Mafia"} :
       LET r == SrvFinish(session, team)
       IN session' = r.session /\ Answer("finish", team, r.ok)
  /\ UNCHANGED <<socketVars, dashVars, viewVars, payloadVars, timelineVars, loadVars, newGameVars, assignVars>>

NextService ==
  \/ CmdAssignRoles
  \/ CmdStart
  \/ CmdSendAction
  \/ CmdChangePhase
  \/ CmdFinish

SpecService == InitService /\ [][NextService]_vars

\* An endPhase command that the service accepted, in this step.
PhaseFlips == session.status = "active" /\ session'.status = "active"
              /\ session'.phase # session.phase

\* C14: the round counter increases by exactly one on every night-to-day flip
\* and is unchanged by every day-to-night flip and by every other command of
\* an active session; a session starts on day 1, so a full day plus night
\* cycle leaves the round exactly one higher.
C14_RoundCountsNights ==
  /\ [][PhaseFlips =>
          session'.round = session.round + (IF session.phase = "night" THEN 1 ELSE 0)]_vars
  /\ [][(session.status # "pending" /\ session'.phase = session.phase) =>
          session'.round = session.round]_vars
  /\ [][(session.status = "pending" /\ session'.status # "pending") =>
          (session'.status = "active" /\ session'.phase = "day" /\ session'.round = 1)]_vars

\* A day and a night went by since the start.
C14_Witness ==
  /\ session.status = "active" /\ session.phase = "day" /\ session.round = 2
  /\ reply.command = "endPhase" /\ reply.arg = "day" /\ reply.ok

\* The command is illegal for the session's status or phase.
Illegal(command, arg, s) ==
  \/ command = "start" /\ s.status # "pending"
  \/ command = "endPhase" /\ (s.status # "active" \/ arg = s.phase)
  \/ command = "finish" /\ s.status # "active"

\* C15: a command that is illegal for the current status or phase (start on
\* a session that is not pending, endPhase or finish on one that is not
\* active, endPhase to the current phase) is rejected and leaves status,
\* phase, round, players, queued intents and log as they were.
C15_RejectedChangesNothing ==
  [][(reply' # reply /\ Illegal(reply'.command, reply'.arg, session)) =>
        /\ ~reply'.ok
        /\ session' = session
        /\ pendingGame' = pendingGame]_vars

\* An endPhase to the phase the session is in was refused during a night
\* with a kill queued.
C15_Witness ==
  /\ reply.command = "endPhase" /\ reply.arg = "night" /\ ~reply.ok
  /\ session.status = "active" /\ session.phase = "night"
  /\ session.intents.kill # "none"

StatusRank(st) == IF st = "pending" THEN 0 ELSE IF st = "active" THEN 1 ELSE 2

\* C16: the status only moves pending -> active -> finished, one step at a
\* time and never back; once finished the session never changes again, and
\* every endPhase is refused, adding no log entry and leaving phase and round.
C16_FinishedIsTerminal ==
  /\ [][StatusRank(session'.status) \in
          {StatusRank(session.status), StatusRank(session.status) + 1}]_vars
  /\ [][session.status = "finished" => session' = session]_vars
  /\ [][(reply' # reply /\ reply'.command = "endPhase" /\ session.status = "finished") =>
          /\ ~reply'.ok
          /\ session'.logs = session.logs
          /\ session'.phase = session.phase
          /\ session'.round = session.round]_vars

\* An endPhase was refused after the host finished the game in round 2.
C16_Witness ==
  /\ session.status = "finished" /\ session.round = 2
  /\ reply.command = "endPhase" /\ ~reply.ok

NextTimeline == TimelineRenders

SpecTimeline == InitSocket /\ [][NextTimeline]_vars

\* The entries in the order the panel lists them, top to bottom.
RECURSIVE Listing(_)
Listing(groups) ==
  IF groups = <<>> THEN <<>> ELSE Head(groups).logs \o Listing(Tail(groups))

\* C17: the log is listed by round, then phase (day before night), then
\* insertion order, whatever the timestamps: an entry of round r/day is
\* never placed after an entry of round r/night.
C17_LogOrder ==
  LET listing == Listing(groupedLogs)
  IN \A i, j \in 1..Len(listing) :
       i < j => \/ LogTag(listing[i]) < LogTag(listing[j])
                \/ (LogTag(listing[i]) = LogTag(listing[j]) /\ listing[i].id < listing[j].id)

(***************************************************************************)
(* The public display as a whole: its socket hook next to its load effect. *)
(***************************************************************************)
NextDisplay ==
  \/ Mount
  \/ SetProps
  \/ Unmount
  \/ SocketOpens
  \/ SocketErrors
  \/ SocketCloses
  \/ TimerFires
  \/ ViewLoadServed
  \/ ViewLoadFails
  \/ ViewLoadResumes

SpecDisplay == InitSocket /\ [][NextDisplay]_vars

\* A connection of the running hook fails in this step: it errors, closes
\* unexpectedly, or a reconnect attempt does not get through.
TransportFailure ==
  /\ UNCHANGED <<mounted, enabled, gameId>>
  /\ \E s \in SocketIds :
       /\ sockets[s].hooked /\ sockets[s].active
       /\ sockets[s].state \in {"connecting", "open"}
       /\ sockets'[s].state \in {"closing", "closed"}

\* C19: a transport failure of the viewer (socket error, unexpected close,
\* failed reconnect attempt) changes only the connection status: it neither
\* sets the page's error nor touches the game shown, and no host command
\* fails because of it.
C19_FailuresStayInTheHook ==
  [][TransportFailure =>
        /\ status' \in {"error", "reconnecting", "closed"}
        /\ UNCHANGED <<viewGame, viewError, viewLoad, inbox>>
        /\ UNCHANGED <<session, dashVars, assignVars>>]_vars

\* The display shows a game and no error while its second reconnect in a
\* row is pending.
C19_Witness ==
  /\ viewGame # <<>> /\ viewError = "none"
  /\ status = "reconnecting" /\ reconnectAttempts >= 2

\* The player counts the suggestion is computed for, past the ninth player,
\* who brings the Jester in.
MaxSuggested == 12

NextNewGame ==
  \/ AddPlayer
  \/ RemovePlayer
  \/ adjustRoleCount
  \/ applySuggestedRoles

SpecNewGame == InitSocket /\ [][NextNewGame]_vars

\* C29: for every number n >= 1 of players getSuggestedRoleCounts(n) gives
\* non-negative counts that add up to exactly n with at least one Mafia, so
\* the role slots of the new-game page equal its player count whenever the
\* host has made no manual edit.
C29_SuggestionFits ==
  /\ \A n \in 1..MaxSuggested :
       LET c == getSuggestedRoleCounts(n)
       IN /\ \A role \in ROLE_KEYS : c[role] >= 0
          /\ SlotSum(c) = n
          /\ c["Mafia"] >= 1
  /\ (totalPlayers >= 1 /\ ~hasManualRoleEdits) =>
       /\ roleCounts = getSuggestedRoleCounts(totalPlayers)
       /\ SlotSum(roleCounts) = totalPlayers

\* The suggestion for six players is back after a manual edit was undone by
\* Apply suggested.
C29_Witness ==
  /\ totalPlayers = MaxPlayers /\ ~hasManualRoleEdits
  /\ roleCounts["Mafia"] = 2 /\ roleCounts["Detective"] = 1 /\ roleCounts["Doctor"] = 1

====
